---- MODULE Spec2Model ----
(***************************************************************************)
(* Queue-based traffic simulation, partitioned over cooperating processes. *)
(* Each partition runs Simulation::run: wakeup, terminate_teleportation,   *)
(* move_nodes, move_links (which ends in the broker's send_recv).          *)
(* Quantities of pce (storage, flow credit) are kept in tenths of a pce.   *)
(***************************************************************************)
EXTENDS Integers, Sequences, FiniteSets, TLC

VARIABLES
    scenario,         \* name of the run's scenario
    config,           \* the run's configuration: network, population, num_parts, end_time
    now,              \* now[p]: loop variable of Simulation::run
    pc,               \* pc[p]: position of partition p inside run
    activity_q,       \* activity_q[p]: set of [agent, time]
    teleportation_q,  \* teleportation_q[p]: set of [vehicle, time]
    garage,           \* garage[p]: ids of parked vehicles
    links,            \* links[p][l]: SimLink of partition p
    out_messages,     \* out_messages[p]: the SyncMessages under construction, one per target
    in_messages,      \* in_messages[p]: messages buffered for a later tick
    channel,          \* channel[p]: the Receiver of partition p
    expected,         \* expected[p]: expected_vehicle_messages of send_recv
    vehicles,         \* vehicles[p]: the messages send_receive_vehicles has still to send
    result,           \* result[p]: messages collected by the running send_recv
    node_cur,         \* node_cur[p]: node being moved by move_nodes
    unavailable,      \* unavailable[p]: unavailable_links of move_node
    exited,           \* exited[p]: exited_vehicles of move_nodes
    events,           \* events[p]: what the EventsPublisher of p has published
    finished,         \* finished[p]: number of calls of events.finish()
    agent_events,     \* agent_events[a]: events about agent a, in publication order
    sent,             \* sent[p][q]: ticks of the messages p has sent to q
    received,         \* received[p][q]: ticks of the messages from q that send_recv returned to p
    readers,          \* proto2xml convert: the StatefulReaders still open
    publisher         \* proto2xml convert: what its EventsPublisher has published, calls of finish

vars == <<scenario, config, now, pc, activity_q, teleportation_q, garage, links, out_messages,
          in_messages, channel, expected, vehicles, result, node_cur, unavailable,
          exited, events, finished, agent_events, sent, received, readers, publisher>>

-----------------------------------------------------------------------------
(* Bounds *)

\* end_time of the run on the four-node network
EndTime == 6

\* end_time of the scenarios that take a few ticks, and of the three-link scenarios
ShortEnd == 12

S2End == 32

TestEnd == 147

\* the vehicles queued on the link of the flow scenario
NumQueued == 3

StartTime == 0

\* tenths of a pce per pce
Scale == 10

Undefined == 999

\* the ranks a run can have
Ranks == 0 .. 2

-----------------------------------------------------------------------------
(* Plans *)

Act(link, end_time, max_dur) ==
    [kind |-> "act", link_id |-> link, end_time |-> end_time, max_dur |-> max_dur]

Leg(mode, route, trav_time) ==
    [kind |-> "leg", mode |-> mode, route |-> route, trav_time |-> trav_time]

\* a plan of one leg
Trip(from, end_time, mode, route, trav_time, to) ==
    <<Act(from, end_time, Undefined), Leg(mode, route, trav_time),
      Act(to, Undefined, Undefined)>>

-----------------------------------------------------------------------------
(* Networks and populations                                                *)
(*                                                                         *)
(* main: four nodes on three partitions                                    *)
(*     N0 ==L0,L3==> N1 --L1--> N2 --L2--> N3       N1 --L4--> N0          *)
(*     partition 0: N0, N1     partition 1: N2     partition 2: N3         *)
(* three links in series, N0 --L0--> N1 --L1--> N2 --L2--> N3, on one, two *)
(* or three partitions; one link N0 --L0--> N1; two links in series with   *)
(* the nodes numbered along the links or against them; two links that meet *)
(* at a node before a third (merge, merge2); the links 5 .. 8 of the runs  *)
(* of a single link, of which link 7 comes from another partition          *)

\* from, to, length (m), freespeed (m/s), capacity (veh/h), permlanes 1
Link(from, to, length, freespeed, capacity) ==
    [from |-> from, to |-> to, length |-> length, freespeed |-> freespeed,
     capacity |-> capacity, permlanes |-> 1]

\* three links in series, each with its length
Series(len0, len1, len2) ==
    0 :> Link(0, 1, len0, 10, 3600) @@ 1 :> Link(1, 2, len1, 10, 3600)
        @@ 2 :> Link(2, 3, len2, 10, 3600)

Scenarios ==
    {"main", "link", "S1", "S2", "S3", "S4", "S4rev", "S6", "S6far", "test", "test2",
     "merge", "merge2", "zero", "merge3", "S6alone", "brief"}

\* nodes: Node.partition by node id; links: Link by link id; plans: Plan by agent id
Configs ==
    [s \in Scenarios |->
        CASE s = "main" ->
               [num_parts |-> 3, nodes |-> <<0, 0, 1, 2>>, end_time |-> EndTime,
                links |-> 0 :> Link(0, 1, 10, 20, 3600) @@ 1 :> Link(1, 2, 10, 5, 3600)
                          @@ 2 :> Link(2, 3, 10, 20, 3600) @@ 3 :> Link(0, 1, 10, 20, 1800)
                          @@ 4 :> Link(1, 0, 10, 20, 3600),
                plans |-> <<
                    <<Act(3, 0, Undefined), Leg("car", <<3, 1, 2>>, 0),
                      Act(2, Undefined, 0), Leg("walk", <<2, 0>>, 1),
                      Act(0, Undefined, Undefined)>>,
                    Trip(3, 0, "car", <<3, 1>>, 0, 1),
                    <<Act(0, 1, Undefined), Leg("walk", <<0, 4>>, 2),
                      Act(4, Undefined, 1), Leg("car", <<4, 0>>, 0),
                      Act(0, Undefined, Undefined)>>,
                    Trip(1, 1, "car", <<1>>, 0, 1)>>]
          [] s = "link" ->
               [num_parts |-> 2, nodes |-> <<0, 1>>, end_time |-> EndTime,
                links |-> 5 :> Link(0, 0, 5, 10, 5400) @@ 6 :> Link(0, 0, 20, 10, 3600)
                          @@ 7 :> Link(1, 0, 15, 10, 3600) @@ 8 :> Link(0, 0, 10, 10, 1800)
                          @@ 9 :> Link(0, 0, 100, 10, 360),
                plans |-> <<Trip(5, 0, "car", <<5>>, 0, 5)>>]
          [] s = "S1" ->
               [num_parts |-> 1, nodes |-> <<0, 0>>, end_time |-> ShortEnd,
                links |-> 0 :> Link(0, 1, 100, 10, 3600),
                plans |-> <<Trip(0, 0, "car", <<0>>, 0, 0)>>]
          [] s = "S2" ->
               [num_parts |-> 2, nodes |-> <<0, 0, 1, 1>>, end_time |-> S2End,
                links |-> Series(100, 100, 100),
                plans |-> <<Trip(0, 0, "car", <<0, 1, 2>>, 0, 2)>>]
          [] s = "S3" ->
               [num_parts |-> 1, nodes |-> <<0, 0>>, end_time |-> ShortEnd,
                links |-> 0 :> Link(0, 1, 100, 10, 3600),
                plans |-> [a \in 1 .. NumQueued |-> Trip(0, 0, "car", <<0>>, 0, 0)]]
          [] s = "S4" ->
               [num_parts |-> 1, nodes |-> <<0, 0, 0>>, end_time |-> ShortEnd,
                links |-> 0 :> Link(0, 1, 20, 10, 3600) @@ 1 :> Link(1, 2, 15, 3, 3600),
                plans |-> <<Trip(1, 0, "car", <<1>>, 0, 1), Trip(1, 0, "car", <<1>>, 0, 1),
                            Trip(0, 0, "car", <<0, 1>>, 0, 1)>>]
          [] s = "S4rev" ->
               [num_parts |-> 1, nodes |-> <<0, 0, 0>>, end_time |-> ShortEnd,
                links |-> 0 :> Link(1, 2, 20, 10, 3600) @@ 1 :> Link(2, 0, 15, 3, 3600),
                plans |-> <<Trip(1, 0, "car", <<1>>, 0, 1), Trip(1, 0, "car", <<1>>, 0, 1),
                            Trip(0, 0, "car", <<0, 1>>, 0, 1)>>]
          [] s = "S6" ->
               [num_parts |-> 2, nodes |-> <<0, 0, 1, 1>>, end_time |-> ShortEnd,
                links |-> Series(100, 100, 100),
                plans |-> <<Trip(0, 0, "walk", <<0, 2>>, 8, 2)>>]
          [] s = "S6far" ->
               [num_parts |-> 3, nodes |-> <<0, 0, 1, 2>>, end_time |-> ShortEnd,
                links |-> Series(100, 100, 100),
                plans |-> <<Trip(0, 0, "walk", <<0, 2>>, 8, 2)>>]
          [] s = "brief" ->
               [num_parts |-> 1, nodes |-> <<0, 0, 0, 0>>, end_time |-> ShortEnd,
                links |-> Series(10, 10, 10),
                plans |-> <<
                    <<Act(0, 0, Undefined), Leg("walk", <<0, 0>>, 2),
                      Act(0, Undefined, 0), Leg("car", <<0, 1>>, 0),
                      Act(1, Undefined, 0), Leg("walk", <<1, 1>>, 2),
                      Act(1, Undefined, Undefined)>> >>]
          [] s = "S6alone" ->
               [num_parts |-> 2, nodes |-> <<0, 0, 1, 1>>, end_time |-> ShortEnd,
                links |-> 0 :> Link(0, 1, 100, 10, 3600) @@ 2 :> Link(2, 3, 100, 10, 3600),
                plans |-> <<Trip(0, 0, "walk", <<0, 2>>, 8, 2)>>]
          [] s = "test" ->
               [num_parts |-> 1, nodes |-> <<0, 0, 0, 0>>, end_time |-> TestEnd,
                links |-> Series(100, 1000, 100),
                plans |-> <<
                    <<Act(0, 0, Undefined), Leg("walk", <<0, 0>>, 8),
                      Act(0, Undefined, 1), Leg("car", <<0, 1, 2>>, 0),
                      Act(2, Undefined, 1), Leg("walk", <<2, 2>>, 16),
                      Act(2, Undefined, Undefined)>> >>]
          [] s = "test2" ->
               [num_parts |-> 2, nodes |-> <<0, 0, 1, 1>>, end_time |-> TestEnd,
                links |-> Series(100, 1000, 100),
                plans |-> <<
                    <<Act(0, 0, Undefined), Leg("walk", <<0, 0>>, 8),
                      Act(0, Undefined, 1), Leg("car", <<0, 1, 2>>, 0),
                      Act(2, Undefined, 1), Leg("walk", <<2, 2>>, 16),
                      Act(2, Undefined, Undefined)>> >>]
          [] s = "merge" ->
               [num_parts |-> 1, nodes |-> <<0, 0, 0, 0>>, end_time |-> ShortEnd,
                links |-> 0 :> Link(0, 2, 10, 10, 3600) @@ 1 :> Link(1, 2, 10, 10, 3600)
                          @@ 2 :> Link(2, 3, 7, 10, 1800),
                plans |-> <<Trip(0, 0, "car", <<0, 2>>, 0, 2),
                            Trip(1, 0, "car", <<1, 2>>, 0, 2)>>]
          [] s = "merge2" ->
               [num_parts |-> 2, nodes |-> <<0, 0, 0, 1>>, end_time |-> ShortEnd,
                links |-> 0 :> Link(0, 2, 10, 10, 3600) @@ 1 :> Link(1, 2, 10, 10, 3600)
                          @@ 2 :> Link(2, 3, 20, 10, 3600),
                plans |-> <<Trip(0, 0, "car", <<0, 2>>, 0, 2),
                            Trip(1, 0, "car", <<1, 2>>, 0, 2)>>]
          [] s = "merge3" ->
               [num_parts |-> 2, nodes |-> <<0, 0, 0, 1>>, end_time |-> ShortEnd,
                links |-> 0 :> Link(0, 2, 10, 10, 3600) @@ 1 :> Link(1, 2, 10, 10, 3600)
                          @@ 2 :> Link(2, 3, 7, 10, 1800),
                plans |-> <<Trip(0, 0, "car", <<0, 2>>, 0, 2),
                            Trip(1, 0, "car", <<1, 2>>, 0, 2)>>]
          [] s = "zero" ->
               [num_parts |-> 1, nodes |-> <<0, 0, 0, 0>>, end_time |-> ShortEnd,
                links |-> 0 :> Link(0, 2, 10, 10, 3600) @@ 1 :> Link(1, 2, 10, 10, 0)
                          @@ 2 :> Link(2, 3, 20, 10, 3600),
                plans |-> <<Trip(0, 0, "car", <<0, 2>>, 0, 2)>>]]

Config == config

\* config.end_time
end_time == Config.end_time

Parts == 0 .. Config.num_parts - 1

NodePartition == Config.nodes

Nodes == 0 .. Len(NodePartition) - 1

LinkTable == Config.links

LinkIds == DOMAIN LinkTable

\* the links of runs of a single link
BenchLinks == {5, 6, 7, 8}

NodePart(n) == NodePartition[n + 1]

\* Link.partition: the partition of the to-node
LinkPartition(l) == NodePart(LinkTable[l].to)

InLinks(n) == {l \in LinkIds : LinkTable[l].to = n}

OutLinks(n) == {l \in LinkIds : LinkTable[l].from = n}

Max(a, b) == IF a >= b THEN a ELSE b

Min(a, b) == IF a <= b THEN a ELSE b

\* the elements of a sequence
Range(s) == {s[i] : i \in 1 .. Len(s)}

\* the numbers of a set in ascending order
RECURSIVE Ascending(_)
Ascending(S) ==
    IF S = {} THEN <<>>
    ELSE LET x == CHOOSE y \in S : \A z \in S : y <= z
         IN <<x>> \o Ascending(S \ {x})

\* the elements of a set, one after the other
RECURSIVE SetToSeq(_)
SetToSeq(S) ==
    IF S = {} THEN <<>>
    ELSE LET x == CHOOSE y \in S : TRUE IN <<x>> \o SetToSeq(S \ {x})

\* all orders in which the elements of a set can be taken
RECURSIVE Orders(_)
Orders(S) ==
    IF S = {} THEN {<<>>}
    ELSE UNION {{<<x>> \o o : o \in Orders(S \ {x})} : x \in S}

-----------------------------------------------------------------------------
(* Link construction: SimNetworkPartition::create_sim_link, LocalLink::new *)

\* the effective cell size of a network that sets none, in tenths of a metre
DefaultCellSize == 75

\* global_network.effective_cell_size
EffectiveCellSize ==
    IF "effective_cell_size" \in DOMAIN Config THEN Config.effective_cell_size
    ELSE DefaultCellSize

\* the cell size create_sim_link passes for a SplitIn link (7.5)
InLinkCellSize == 75

FlowCapS(l) == (LinkTable[l].capacity * Scale) \div 3600

LinkKind(p, l) ==
    LET from_part == NodePart(LinkTable[l].from)
        to_part == NodePart(LinkTable[l].to)
    IN IF from_part = to_part THEN "Local"
       ELSE IF to_part = p THEN "In" ELSE "Out"

\* StorageCap::new: the maximum occupancy in tenths of a pce, the cells of the
\* link or its flow capacity per second if that is more
StorageCapMax(l, cell) ==
    Max((LinkTable[l].length * LinkTable[l].permlanes * 10 * Scale) \div cell,
        FlowCapS(l))

StorageMax(p, l) ==
    StorageCapMax(l, IF LinkKind(p, l) = "In" THEN InLinkCellSize ELSE EffectiveCellSize)

\* the links a partition holds: those touching one of its nodes
PartLinks(p) ==
    {l \in LinkIds : NodePart(LinkTable[l].from) = p \/ NodePart(LinkTable[l].to) = p}

PartNodes(p) == {n \in Nodes : NodePart(n) = p}

\* neighbor_part answering with the partition of the to-node for every link
NeighborPart_downstream(p, l) ==
    NodePart(LinkTable[l].to)

\* SimLink::neighbor_part: from_part of a SplitIn link, to_part of a SplitOut link
NeighborPart(p, l) ==
    IF LinkKind(p, l) = "In" THEN NodePart(LinkTable[l].from)
    ELSE NodePart(LinkTable[l].to)

\* neighbors of a partition that knows none
neighbors_none(p) == {}

neighbors(p) == {NeighborPart(p, l) : l \in {k \in PartLinks(p) : LinkKind(p, k) # "Local"}}

NewLink(p, l) ==
    IF LinkKind(p, l) = "Out"
    THEN [kind |-> "Out", q |-> <<>>, used |-> 0]
    ELSE [kind |-> LinkKind(p, l), q |-> <<>>, used |-> 0, released |-> 0,
          flow |-> FlowCapS(l), last_update |-> 0]

-----------------------------------------------------------------------------
(* Vehicle types, plans, vehicles *)

VehTypes == {"car", "walk", "bike", "van"}

\* lod, pce in tenths, max_v in m/s
VehicleType(t) ==
    IF t = "car" THEN [lod |-> "Network", pce |-> Scale, max_v |-> 10]
    ELSE IF t = "bike" THEN [lod |-> "Network", pce |-> 2, max_v |-> 7]
    ELSE IF t = "van" THEN [lod |-> "Network", pce |-> 15, max_v |-> 10]
    ELSE [lod |-> "Teleported", pce |-> Scale, max_v |-> 1]

Agents == 0 .. Len(Config.plans) - 1

Plan(a) == Config.plans[a + 1]

\* one vehicle per agent and mode: Route.veh_id
VehId(a, mode) == IF mode = "car" THEN 2 * a ELSE 2 * a + 1

VehIds == {VehId(a, mode) : a \in Agents, mode \in {"car", "walk"}}

\* the vehicles of single-link runs: cars with even ids, bikes from 8 on
BenchVehIds == {0, 2, 4, 6, 8, 9, 10, 11}

VehTypeOf(v) ==
    IF v >= 12 THEN "van"
    ELSE IF v >= 8 THEN "bike" ELSE IF v % 2 = 0 THEN "car" ELSE "walk"

\* an agent is [id, curr_plan_elem] (1-based into Plan), a vehicle carries its agent
curr_act(agent) == Plan(agent.id)[agent.curr_plan_elem]

curr_leg(agent) == Plan(agent.id)[agent.curr_plan_elem]

advance_plan(agent) == [agent EXCEPT !.curr_plan_elem = @ + 1]

Route(veh) == curr_leg(veh.agent).route

\* curr_route_elem is an index, 0-based as in the source
curr_link_id(veh) == Route(veh)[veh.curr_route_elem + 1]

HasNext(veh) == veh.curr_route_elem + 1 < Len(Route(veh))

\* peek_next_route_element that answers with the current link
peek_next_route_element_current(veh) == Route(veh)[veh.curr_route_elem + 1]

peek_next_route_element(veh) == Route(veh)[veh.curr_route_elem + 2]

advance_route_index(veh) == [veh EXCEPT !.curr_route_elem = @ + 1]

pce(veh) == VehicleType(VehTypeOf(veh.id)).pce

max_v(veh) == VehicleType(VehTypeOf(veh.id)).max_v

lod(veh) == VehicleType(VehTypeOf(veh.id)).lod

-----------------------------------------------------------------------------
(* Flow regulator, storage regulator, time queue *)

\* update_capacity without a cap
update_capacity_uncapped(link, l, t) ==
    IF t > link.last_update
    THEN [link EXCEPT !.flow = @ + FlowCapS(l) * (t - link.last_update),
                      !.last_update = t]
    ELSE link

\* update_capacity that caps the accumulator at max(1, capacity_per_s)
update_capacity_capped_at_one(link, l, t) ==
    IF t > link.last_update
    THEN [link EXCEPT !.flow = Min(@ + FlowCapS(l) * (t - link.last_update),
                                   Max(Scale, FlowCapS(l))),
                      !.last_update = t]
    ELSE link

\* Flowcap::update_capacity: capacity_per_s for every tick since the last update,
\* capped at capacity_per_s. The tests of the links fix the cap: with 0.1 pce/s
\* a link that has released 1.5 pce at tick 10 offers nothing in ticks 11 .. 24
\* and offers again at tick 25, and one that has released 1 pce at tick 10
\* releases nothing at tick 18 and one vehicle at tick 20.
update_capacity(link, l, t) ==
    IF t > link.last_update
    THEN [link EXCEPT !.flow = Min(@ + FlowCapS(l) * (t - link.last_update), FlowCapS(l)),
                      !.last_update = t]
    ELSE link

has_capacity(link) == link.flow > 0

consume_capacity(link, by) == [link EXCEPT !.flow = @ - by]

\* StorageCap
storage_consume(link, by) == [link EXCEPT !.used = @ + by]

storage_release(link, by) == [link EXCEPT !.released = @ + by]

apply_released(link) == [link EXCEPT !.used = @ - link.released, !.released = 0]

storage_clear(link) == [link EXCEPT !.used = 0]

storage_is_available(p, l, link) == link.used < StorageMax(p, l)

\* the end time TimeQueue::add computes for an agent: the end of its current activity
ActEndTime(agent, t) ==
    LET act == curr_act(agent)
    IN IF act.end_time # Undefined THEN act.end_time
       ELSE IF act.max_dur # Undefined THEN t + act.max_dur
       ELSE Undefined

\* and for a teleported vehicle: the end of its leg
LegEndTime(veh, t) == t + curr_leg(veh.agent).trav_time

\* TimeQueue::pop: the entries that are due
Due(queue, t) == {e \in queue : e.time <= t}

-----------------------------------------------------------------------------
(* Link queues: simulation/network/link.rs *)

LinkDuration(l, veh) ==
    LET speed == Min(LinkTable[l].freespeed, max_v(veh))
    IN Max(1, LinkTable[l].length \div speed)

\* push_veh that puts the vehicle at the head of the queue
local_push_veh_front(link, l, veh, t) ==
    LET entry == [vehicle |-> veh, earliest_exit_time |-> t + LinkDuration(l, veh)]
    IN [storage_consume(link, pce(veh)) EXCEPT !.q = <<entry>> \o @]

\* LocalLink::push_veh
local_push_veh(link, l, veh, t) ==
    LET entry == [vehicle |-> veh, earliest_exit_time |-> t + LinkDuration(l, veh)]
    IN [storage_consume(link, pce(veh)) EXCEPT !.q = Append(@, entry)]

\* SplitOutLink::push_veh that consumes no storage
out_push_veh_free(link, veh) == [link EXCEPT !.q = Append(@, veh)]

\* SplitOutLink::push_veh
out_push_veh(link, veh) ==
    [storage_consume(link, pce(veh)) EXCEPT !.q = Append(@, veh)]

\* SimLink::push_veh
push_veh(link, l, veh, t) ==
    IF link.kind = "Out" THEN out_push_veh(link, veh) ELSE local_push_veh(link, l, veh, t)

\* q_front that does not look at the exit time
q_front_eager(link, t) ==
    /\ has_capacity(link)
    /\ link.q # <<>>

\* q_front that does not ask the flow regulator
q_front_unmetered(link, t) ==
    /\ link.q # <<>>
    /\ Head(link.q).earliest_exit_time <= t

\* LocalLink::q_front: TRUE when the link offers its head
q_front(link, t) ==
    /\ has_capacity(link)
    /\ link.q # <<>>
    /\ Head(link.q).earliest_exit_time <= t

\* pop_front that consumes no flow capacity
pop_front_free(link) ==
    LET veh == Head(link.q).vehicle
    IN [storage_release(link, pce(veh)) EXCEPT !.q = Tail(@)]

\* pop_front that leaves the head in the queue
pop_front_peeking(link) ==
    LET veh == Head(link.q).vehicle
    IN storage_release(consume_capacity(link, pce(veh)), pce(veh))

\* pop_front that frees the storage at once instead of at the next move_links
pop_front_release_now(link) ==
    LET veh == Head(link.q).vehicle
    IN [apply_released(storage_release(consume_capacity(link, pce(veh)), pce(veh)))
           EXCEPT !.q = Tail(@)]

\* LocalLink::pop_front: the link after the pop (the vehicle is Head(link.q).vehicle)
pop_front(link) ==
    LET veh == Head(link.q).vehicle
    IN [storage_release(consume_capacity(link, pce(veh)), pce(veh)) EXCEPT !.q = Tail(@)]

\* is_available that never refuses
is_available_always(p, l, link) == TRUE

\* SimLink::is_available (not defined for a SplitIn link: the source panics)
is_available(p, l, link) == storage_is_available(p, l, link)

\* take_veh that leaves the vehicles in the buffer
take_veh_keeping(link) == storage_clear(link)

\* take_veh that does not clear the used storage
take_veh_storage_kept(link) == [link EXCEPT !.q = <<>>]

\* SplitOutLink::take_veh
take_veh(link) == [storage_clear(link) EXCEPT !.q = <<>>]

\* SplitOutLink::set_used_storage_cap
set_used_storage_cap(link, value) == storage_consume(storage_clear(link), value)

-----------------------------------------------------------------------------
(* One partition's Simulation as a record S:                               *)
(*   activity_q, teleportation_q, garage, links, out_messages, events,     *)
(*   agent_events                                                          *)

Event(type, agent, veh, link) ==
    [type |-> type, agent |-> agent, veh |-> veh, link |-> link]

\* EventsPublisher::publish_event, with the per-agent stream kept beside it
publish_event(S, p, t, e, about) ==
    [S EXCEPT !.events = Append(@, [time |-> t, event |-> e]),
              !.agent_events[about] =
                  Append(@, [time |-> t, type |-> e.type, link |-> e.link, part |-> p])]

\* Garage::unpark_veh
unpark_veh(S, agent, id) ==
    [S EXCEPT !.garage = @ \ {id}]

NewVehicle(agent, id) == [id |-> id, curr_route_elem |-> 0, agent |-> agent]

\* Garage::park_veh
park_veh(S, veh) == [S EXCEPT !.garage = @ \cup {veh.id}]

\* SimNetworkPartition::send_veh_en_route
send_veh_en_route(S, veh, t) ==
    LET l == curr_link_id(veh)
    IN [S EXCEPT !.links[l] = push_veh(@, l, veh, t)]

SyncMessage(t, from, to) ==
    [time |-> t, from_process |-> from, to_process |-> to,
     vehicles |-> <<>>, storage_capacities |-> <<>>]

\* the entry of out_messages for a partition, created when absent
Entry(msgs, t, from, to) ==
    IF \E m \in msgs : m.to_process = to
    THEN CHOOSE m \in msgs : m.to_process = to
    ELSE SyncMessage(t, from, to)

PutEntry(msgs, m) == {k \in msgs : k.to_process # m.to_process} \cup {m}

\* add_veh that addresses the partition of the first link of the route
add_veh_to_start(S, p, veh, t) ==
    LET partition == LinkPartition(Route(veh)[1])
        message == Entry(S.out_messages, t, p, partition)
    IN [S EXCEPT !.out_messages =
            PutEntry(@, [message EXCEPT !.vehicles = Append(@, veh)])]

\* NetMessageBroker::add_veh
add_veh(S, p, veh, t) ==
    LET partition == LinkPartition(curr_link_id(veh))
        message == Entry(S.out_messages, t, p, partition)
    IN [S EXCEPT !.out_messages =
            PutEntry(@, [message EXCEPT !.vehicles = Append(@, veh)])]

\* add_cap that addresses the partition that owns the link
add_cap_to_owner(S, p, cap, t) ==
    LET message == Entry(S.out_messages, t, p, LinkPartition(cap.link_id))
    IN [S EXCEPT !.out_messages =
            PutEntry(@, [message EXCEPT !.storage_capacities =
                            Append(@, [link_id |-> cap.link_id, value |-> cap.used])])]

\* NetMessageBroker::add_cap
add_cap(S, p, cap, t) ==
    LET message == Entry(S.out_messages, t, p, cap.from_part)
    IN [S EXCEPT !.out_messages =
            PutEntry(@, [message EXCEPT !.storage_capacities =
                            Append(@, [link_id |-> cap.link_id, value |-> cap.used])])]

\* Simulation::is_local_route
is_local_route(veh) ==
    LET route == Route(veh)
    IN LinkPartition(route[1]) = LinkPartition(route[Len(route)])

\* departure that publishes no event
departure_silent(S, p, agent0, t) ==
    LET agent == advance_plan(agent0)
        leg == curr_leg(agent)
        id == VehId(agent.id, leg.mode)
    IN [sim |-> unpark_veh(S, agent, id), vehicle |-> NewVehicle(agent, id)]

\* Simulation::departure
departure(S, p, agent0, t) ==
    LET agent == advance_plan(agent0)
        leg == curr_leg(agent)
        S1 == publish_event(S, p, t, Event("departure", agent.id, -1, leg.route[1]),
                            agent.id)
        id == VehId(agent.id, leg.mode)
    IN [sim |-> unpark_veh(S1, agent, id), vehicle |-> NewVehicle(agent, id)]

\* the body of the loop of wakeup without the advance of the route index of a
\* remote teleported leg
WakeupAgent_cursor_at_start(S, p, agent, t) ==
    LET S1 == publish_event(S, p, t,
                  Event("actend", agent.id, -1, curr_act(agent).link_id), agent.id)
        d == departure(S1, p, agent, t)
        veh == d.vehicle
    IN IF lod(veh) = "Network"
       THEN send_veh_en_route(
                publish_event(d.sim, p, t,
                    Event("entersveh", veh.agent.id, veh.id, -1), veh.agent.id),
                veh, t)
       ELSE IF is_local_route(veh)
            THEN [d.sim EXCEPT !.teleportation_q =
                     @ \cup {[vehicle |-> veh, time |-> LegEndTime(veh, t)]}]
            ELSE add_veh(d.sim, p, veh, t)

\* the body of the loop of Simulation::wakeup for one agent
WakeupAgent(S, p, agent, t) ==
    LET S1 == publish_event(S, p, t,
                  Event("actend", agent.id, -1, curr_act(agent).link_id), agent.id)
        d == departure(S1, p, agent, t)
        veh == d.vehicle
    IN IF lod(veh) = "Network"
       THEN send_veh_en_route(
                publish_event(d.sim, p, t,
                    Event("entersveh", veh.agent.id, veh.id, -1), veh.agent.id),
                veh, t)
       ELSE IF is_local_route(veh)
            THEN [d.sim EXCEPT !.teleportation_q =
                     @ \cup {[vehicle |-> veh, time |-> LegEndTime(veh, t)]}]
            ELSE add_veh(d.sim, p, advance_route_index(veh), t)

RECURSIVE WakeupAll(_, _, _, _)
WakeupAll(S, p, order, t) ==
    IF order = <<>> THEN S
    ELSE WakeupAll(WakeupAgent(S, p, Head(order), t), p, Tail(order), t)

\* the same body without the agent entering the activity queue
TerminateVehicle_agent_dropped(S, p, veh, t) ==
    LET S1 == park_veh(S, veh)
        leg == curr_leg(veh.agent)
        S2 == publish_event(S1, p, t,
                  Event("travelled", veh.agent.id, -1, -1), veh.agent.id)
        S3 == publish_event(S2, p, t,
                  Event("arrival", veh.agent.id, -1, leg.route[Len(leg.route)]),
                  veh.agent.id)
        agent == advance_plan(veh.agent)
    IN publish_event(S3, p, t,
           Event("actstart", agent.id, -1, curr_act(agent).link_id), agent.id)

\* the body of the loop of Simulation::terminate_teleportation for one vehicle
TerminateVehicle(S, p, veh, t) ==
    LET S1 == park_veh(S, veh)
        leg == curr_leg(veh.agent)
        S2 == publish_event(S1, p, t,
                  Event("travelled", veh.agent.id, -1, -1), veh.agent.id)
        S3 == publish_event(S2, p, t,
                  Event("arrival", veh.agent.id, -1, leg.route[Len(leg.route)]),
                  veh.agent.id)
        agent == advance_plan(veh.agent)
        S4 == publish_event(S3, p, t,
                  Event("actstart", agent.id, -1, curr_act(agent).link_id), agent.id)
    IN [S4 EXCEPT !.activity_q =
            @ \cup {[agent |-> agent, time |-> ActEndTime(agent, t)]}]

RECURSIVE TerminateAll(_, _, _, _)
TerminateAll(S, p, order, t) ==
    IF order = <<>> THEN S
    ELSE TerminateAll(TerminateVehicle(S, p, Head(order), t), p, Tail(order), t)

-----------------------------------------------------------------------------
(* Node transitions: simulation/network/sim_network.rs *)

\* should_veh_move_out that leaves a vehicle at the end of its route on the link
should_veh_move_out_last_stays(p, in_id, lks, t) ==
    /\ q_front(lks[in_id], t)
    /\ LET veh == Head(lks[in_id].q).vehicle
       IN /\ HasNext(veh)
          /\ is_available(p, peek_next_route_element(veh), lks[peek_next_route_element(veh)])

\* SimNetworkPartition::should_veh_move_out
should_veh_move_out(p, in_id, lks, t) ==
    /\ q_front(lks[in_id], t)
    /\ LET veh == Head(lks[in_id].q).vehicle
       IN HasNext(veh) =>
              is_available(p, peek_next_route_element(veh), lks[peek_next_route_element(veh)])

\* move_vehicle leaving the LinkEnter of a split-out link to the partition that
\* owns the link
move_vehicle_enter_at_owner(S, p, vehicle0, t) ==
    LET S1 == publish_event(S, p, t,
                  Event("linkleave", -1, vehicle0.id, vehicle0.curr_route_elem),
                  vehicle0.agent.id)
        vehicle == advance_route_index(vehicle0)
        link_id == curr_link_id(vehicle)
        S2 == IF LinkKind(p, link_id) = "Out" THEN S1
              ELSE publish_event(S1, p, t,
                      Event("linkenter", -1, vehicle.id, link_id), vehicle.agent.id)
    IN [S2 EXCEPT !.links[link_id] = push_veh(@, link_id, vehicle, t)]

\* move_vehicle publishing the LinkEnter before the LinkLeave
move_vehicle_enter_first(S, p, vehicle0, t) ==
    LET vehicle == advance_route_index(vehicle0)
        link_id == curr_link_id(vehicle)
        S1 == publish_event(S, p, t,
                  Event("linkenter", -1, vehicle.id, link_id), vehicle.agent.id)
        S2 == publish_event(S1, p, t,
                  Event("linkleave", -1, vehicle0.id, vehicle0.curr_route_elem),
                  vehicle0.agent.id)
    IN [S2 EXCEPT !.links[link_id] = push_veh(@, link_id, vehicle, t)]

\* SimNetworkPartition::move_vehicle
move_vehicle(S, p, vehicle0, t) ==
    LET S1 == publish_event(S, p, t,
                  Event("linkleave", -1, vehicle0.id, vehicle0.curr_route_elem),
                  vehicle0.agent.id)
        vehicle == advance_route_index(vehicle0)
        link_id == curr_link_id(vehicle)
        S2 == publish_event(S1, p, t,
                  Event("linkenter", -1, vehicle.id, link_id), vehicle.agent.id)
    IN [S2 EXCEPT !.links[link_id] = push_veh(@, link_id, vehicle, t)]

\* one iteration of the loop of SimNetworkPartition::move_node that draws in_link_id;
\* the result is the simulation, the vehicle that exited (if any) and whether the
\* link became unavailable
MoveNodeDraw(S, p, in_link_id, t) ==
    IF should_veh_move_out(p, in_link_id, S.links, t)
    THEN LET veh == Head(S.links[in_link_id].q).vehicle
             S1 == [S EXCEPT !.links[in_link_id] = pop_front(@)]
         IN IF HasNext(veh)
            THEN [sim |-> move_vehicle(S1, p, veh, t), exited |-> <<>>, blocked |-> FALSE]
            ELSE [sim |-> S1, exited |-> <<veh>>, blocked |-> FALSE]
    ELSE [sim |-> S, exited |-> <<>>, blocked |-> TRUE]

\* the loop body of move_nodes that publishes the arrival before the agent has
\* left the vehicle
ExitVehicle_arrival_first(S, p, veh, t) ==
    LET agent == advance_plan(veh.agent)
        act == curr_act(agent)
        S1 == publish_event(S, p, t,
                  Event("arrival", agent.id, -1, act.link_id), agent.id)
        S2 == publish_event(S1, p, t,
                  Event("leavesveh", veh.agent.id, veh.id, -1), veh.agent.id)
        S3 == park_veh(S2, veh)
        S4 == publish_event(S3, p, t,
                  Event("actstart", agent.id, -1, act.link_id), agent.id)
    IN [S4 EXCEPT !.activity_q =
            @ \cup {[agent |-> agent, time |-> ActEndTime(agent, t)]}]

\* the same body with the wakeup of an activity that is over as it starts
ExitVehicle_woken_at_once(S, p, veh, t) ==
    LET S1 == publish_event(S, p, t,
                  Event("leavesveh", veh.agent.id, veh.id, -1), veh.agent.id)
        S2 == park_veh(S1, veh)
        agent == advance_plan(veh.agent)
        act == curr_act(agent)
        S3 == publish_event(S2, p, t,
                  Event("arrival", agent.id, -1, act.link_id), agent.id)
        S4 == publish_event(S3, p, t,
                  Event("actstart", agent.id, -1, act.link_id), agent.id)
    IN IF ActEndTime(agent, t) <= t
       THEN WakeupAgent(S4, p, agent, t)
       ELSE [S4 EXCEPT !.activity_q =
                @ \cup {[agent |-> agent, time |-> ActEndTime(agent, t)]}]

\* the body of the loop of Simulation::move_nodes for one exited vehicle
ExitVehicle(S, p, veh, t) ==
    LET S1 == publish_event(S, p, t,
                  Event("leavesveh", veh.agent.id, veh.id, -1), veh.agent.id)
        S2 == park_veh(S1, veh)
        agent == advance_plan(veh.agent)
        act == curr_act(agent)
        S3 == publish_event(S2, p, t,
                  Event("arrival", agent.id, -1, act.link_id), agent.id)
        S4 == publish_event(S3, p, t,
                  Event("actstart", agent.id, -1, act.link_id), agent.id)
    IN [S4 EXCEPT !.activity_q =
            @ \cup {[agent |-> agent, time |-> ActEndTime(agent, t)]}]

RECURSIVE ExitAll(_, _, _, _)
ExitAll(S, p, vehs, t) ==
    IF vehs = <<>> THEN S
    ELSE ExitAll(ExitVehicle(S, p, Head(vehs), t), p, Tail(vehs), t)

\* the nodes of a partition that have in-links, in the order of self.nodes
NodeOrders ==
    [s \in Scenarios |->
        [p \in 0 .. Configs[s].num_parts - 1 |->
            Ascending({n \in 0 .. Len(Configs[s].nodes) - 1 :
                          /\ Configs[s].nodes[n + 1] = p
                          /\ \E l \in DOMAIN Configs[s].links :
                                 Configs[s].links[l].to = n})]]

NodeOrder == NodeOrders[scenario]

NodesToMove(p) == NodeOrder[p]

\* the in-links in_links_weights.sample(rnd) can return: those whose weight, the
\* capacity of the link, is not zero
Sampled(node) == {l \in InLinks(node) : LinkTable[l].capacity > 0}

\* the links of a partition in the order move_links visits them
LinkOrders ==
    [s \in Scenarios |->
        [p \in 0 .. Configs[s].num_parts - 1 |->
            Ascending({l \in DOMAIN Configs[s].links :
                          \/ Configs[s].nodes[Configs[s].links[l].from + 1] = p
                          \/ Configs[s].nodes[Configs[s].links[l].to + 1] = p})]]

LinkOrder == LinkOrders[scenario]

-----------------------------------------------------------------------------
(* Links and synchronisation *)

\* the arm of move_links without update_released_storage_cap
MoveLink_keeping_released(link, l, t) ==
    IF link.kind = "Out" THEN take_veh(link)
    ELSE update_capacity(link, l, t)

\* the arm of SimNetworkPartition::move_links for one link
MoveLink(link, l, t) ==
    IF link.kind = "Out" THEN take_veh(link)
    ELSE apply_released(update_capacity(link, l, t))

\* the first component of the result of move_links: the vehicles taken from out links
RECURSIVE TakenVehicles(_, _)
TakenVehicles(lks, ids) ==
    IF ids = <<>> THEN <<>>
    ELSE (IF lks[Head(ids)].kind = "Out" THEN lks[Head(ids)].q ELSE <<>>)
         \o TakenVehicles(lks, Tail(ids))

\* the second: a SplitStorage for each in link with used storage after the update
RECURSIVE StorageReports(_, _, _)
StorageReports(p, lks, ids) ==
    IF ids = <<>> THEN <<>>
    ELSE (IF lks[Head(ids)].kind = "In" /\ lks[Head(ids)].used > 0
          THEN <<[link_id |-> Head(ids), used |-> lks[Head(ids)].used,
                  from_part |-> NeighborPart(p, Head(ids))]>>
          ELSE <<>>)
         \o StorageReports(p, lks, Tail(ids))

RECURSIVE AddVehs(_, _, _, _)
AddVehs(S, p, vehs, t) ==
    IF vehs = <<>> THEN S ELSE AddVehs(add_veh(S, p, Head(vehs), t), p, Tail(vehs), t)

RECURSIVE AddCaps(_, _, _, _)
AddCaps(S, p, caps, t) ==
    IF caps = <<>> THEN S ELSE AddCaps(add_cap(S, p, Head(caps), t), p, Tail(caps), t)

\* Simulation::move_links up to the call of send_recv
MoveLinksLocal(S, p, t) ==
    LET ids == LinkOrder[p]
        taken == TakenVehicles(S.links, ids)
        lks == [l \in PartLinks(p) |-> MoveLink(S.links[l], l, t)]
        caps == StorageReports(p, lks, ids)
    IN AddCaps(AddVehs([S EXCEPT !.links = lks], p, taken, t), p, caps, t)

\* prepare_send_recv_vehicles without the empty messages
prepare_without_empty(msgs, p, t) == msgs

\* prepare_send_recv_vehicles that adds an empty message for every neighbour
prepare_always_empty(msgs, p, t) ==
    msgs \cup {SyncMessage(t, p, n) : n \in neighbors(p)}

\* NetMessageBroker::prepare_send_recv_vehicles: the messages to send
prepare_send_recv_vehicles(msgs, p, t) ==
    msgs \cup {SyncMessage(t, p, n) :
                  n \in {k \in neighbors(p) : ~ \E m \in msgs : m.to_process = k}}

\* the messages of a set in the order of the heap in_messages: by time, then sender
RECURSIVE HeapOrder(_)
HeapOrder(msgs) ==
    IF msgs = {} THEN <<>>
    ELSE LET msg == CHOOSE m \in msgs : \A k \in msgs :
                        m.time * 10 + m.from_process <= k.time * 10 + k.from_process
         IN <<msg>> \o HeapOrder(msgs \ {msg})

\* pop_from_cache that finds nothing
pop_from_cache_never(cache, t) == <<>>

\* NetMessageBroker::pop_from_cache: the buffered messages that are due
pop_from_cache(cache, t) == HeapOrder({m \in cache : m.time <= t})

\* handle_incoming_msg that withholds nothing
handle_incoming_msg_at_once(msg, t) == TRUE

\* NetMessageBroker::handle_incoming_msg: TRUE when the message goes to the result
handle_incoming_msg(msg, t) == msg.time <= t

\* the expected set after send_receive_vehicles has received a message
expect_after(exp, received_msg, t) ==
    IF received_msg.time = t THEN exp \ {received_msg.from_process} ELSE exp

\* the panic of update_storage_caps: a report for a link that is not held, or not
\* as a split-out link
storage_caps_panic(lks, caps) ==
    \E i \in 1 .. Len(caps) :
        caps[i].link_id \notin DOMAIN lks \/ lks[caps[i].link_id].kind # "Out"

\* update_storage_caps that drops the reports
update_storage_caps_ignored(lks, caps) == lks

\* SimNetworkPartition::update_storage_caps
RECURSIVE update_storage_caps(_, _)
update_storage_caps(lks, caps) ==
    IF caps = <<>> THEN lks
    ELSE update_storage_caps(
             [lks EXCEPT ![Head(caps).link_id] = set_used_storage_cap(@, Head(caps).value)],
             Tail(caps))

\* the loop over the vehicles of a message, entering them with the tick after the
\* one of send_recv
RECURSIVE IntegrateVehicles_next_tick(_, _, _)
IntegrateVehicles_next_tick(S, vehs, t) ==
    IF vehs = <<>> THEN S
    ELSE LET veh == Head(vehs)
             S1 == IF lod(veh) = "Network" THEN send_veh_en_route(S, veh, t + 1)
                   ELSE [S EXCEPT !.teleportation_q =
                            @ \cup {[vehicle |-> veh, time |-> LegEndTime(veh, t + 1)]}]
         IN IntegrateVehicles_next_tick(S1, Tail(vehs), t)

\* the vehicles of a received message, in the loop at the end of Simulation::move_links
RECURSIVE IntegrateVehicles(_, _, _)
IntegrateVehicles(S, vehs, t) ==
    IF vehs = <<>> THEN S
    ELSE LET veh == Head(vehs)
             S1 == IF lod(veh) = "Network" THEN send_veh_en_route(S, veh, t)
                   ELSE [S EXCEPT !.teleportation_q =
                            @ \cup {[vehicle |-> veh, time |-> LegEndTime(veh, t)]}]
         IN IntegrateVehicles(S1, Tail(vehs), t)

\* the loop over sync_messages at the end of Simulation::move_links
RECURSIVE Integrate(_, _, _)
Integrate(S, msgs, t) ==
    IF msgs = <<>> THEN S
    ELSE LET msg == Head(msgs)
             S1 == [S EXCEPT !.links = update_storage_caps(@, msg.storage_capacities)]
         IN Integrate(IntegrateVehicles(S1, msg.vehicles, t), Tail(msgs), t)

-----------------------------------------------------------------------------
(* The state of one partition as a record, and back *)

Sim(p) ==
    [activity_q |-> activity_q[p], teleportation_q |-> teleportation_q[p],
     garage |-> garage[p], links |-> links[p], out_messages |-> out_messages[p],
     events |-> events[p], agent_events |-> agent_events]

\* the variables a Sim record covers take the values of S for partition p
Store(p, S) ==
    /\ activity_q' = [activity_q EXCEPT ![p] = S.activity_q]
    /\ teleportation_q' = [teleportation_q EXCEPT ![p] = S.teleportation_q]
    /\ garage' = [garage EXCEPT ![p] = S.garage]
    /\ links' = [links EXCEPT ![p] = S.links]
    /\ out_messages' = [out_messages EXCEPT ![p] = S.out_messages]
    /\ events' = [events EXCEPT ![p] = S.events]
    /\ agent_events' = S.agent_events

\* the partition that holds an agent at the start: that of its first activity's link
HomePart(a) == LinkPartition(Plan(a)[1].link_id)

\* an EventsPublisher that has published nothing
NoEvents == [published |-> <<>>, finished |-> 0]

\* the state after Simulation::new for every rank of a run of scenario s
Start(s) ==
    /\ scenario = s
    /\ config = Configs[s]
    /\ now = [p \in Parts |-> StartTime]
    /\ pc = [p \in Parts |-> "wakeup"]
    /\ activity_q =
           [p \in Parts |->
               {[agent |-> [id |-> a, curr_plan_elem |-> 1],
                 time |-> ActEndTime([id |-> a, curr_plan_elem |-> 1], StartTime)] :
                   a \in {b \in Agents : HomePart(b) = p}}]
    /\ teleportation_q = [p \in Parts |-> {}]
    /\ garage = [p \in Parts |-> VehIds]
    /\ links = [p \in Parts |-> [l \in PartLinks(p) |-> NewLink(p, l)]]
    /\ out_messages = [p \in Parts |-> {}]
    /\ in_messages = [p \in Parts |-> {}]
    /\ channel = [p \in Parts |-> <<>>]
    /\ expected = [p \in Parts |-> {}]
    /\ vehicles = [p \in Parts |-> {}]
    /\ result = [p \in Parts |-> <<>>]
    /\ node_cur = [p \in Parts |-> 1]
    /\ unavailable = [p \in Parts |-> {}]
    /\ exited = [p \in Parts |-> <<>>]
    /\ events = [p \in Parts |-> <<>>]
    /\ finished = [p \in Parts |-> 0]
    /\ agent_events = [a \in Agents |-> <<>>]
    /\ sent = [p \in Parts |-> [q \in Parts |-> <<>>]]
    /\ received = [p \in Parts |-> [q \in Parts |-> <<>>]]
    /\ readers = <<>>
    /\ publisher = NoEvents

Init == Start("main")

-----------------------------------------------------------------------------
(* Simulation::run, one action per call it makes *)

\* Simulation::wakeup
Wakeup(p) ==
    /\ p \in Parts
    /\ pc[p] = "wakeup"
    /\ LET due == Due(activity_q[p], now[p])
           S0 == [Sim(p) EXCEPT !.activity_q = @ \ due]
       IN \E order \in Orders({e.agent : e \in due}) :
              \E S \in {WakeupAll(S0, p, order, now[p])} : Store(p, S)
    /\ pc' = [pc EXCEPT ![p] = "teleport"]
    /\ UNCHANGED <<scenario, config, readers, publisher,
                   now, in_messages, channel, expected, vehicles, result, node_cur,
                   unavailable, exited, finished, sent, received>>

\* Simulation::terminate_teleportation
TerminateTeleportation(p) ==
    /\ p \in Parts
    /\ pc[p] = "teleport"
    /\ LET due == Due(teleportation_q[p], now[p])
           S0 == [Sim(p) EXCEPT !.teleportation_q = @ \ due]
       IN \E order \in Orders({e.vehicle : e \in due}) :
              \E S \in {TerminateAll(S0, p, order, now[p])} : Store(p, S)
    /\ pc' = [pc EXCEPT ![p] = "nodes"]
    /\ node_cur' = [node_cur EXCEPT ![p] = 1]
    /\ unavailable' = [unavailable EXCEPT ![p] = {}]
    /\ exited' = [exited EXCEPT ![p] = <<>>]
    /\ UNCHANGED <<scenario, config, readers, publisher,
                   now, in_messages, channel, expected, vehicles, result, finished,
                   sent, received>>

\* Simulation::move_nodes, one drawn in-link at a time; a draw of a link that is
\* already unavailable changes nothing and is drawn again; the draw that finishes
\* the last node also runs the loop over the exited vehicles
MoveNode(p) ==
    /\ p \in Parts
    /\ pc[p] = "nodes"
    /\ LET node == NodesToMove(p)[node_cur[p]]
       IN \E in_link_id \in Sampled(node) \ unavailable[p] :
          \E r \in {MoveNodeDraw(Sim(p), p, in_link_id, now[p])} :
              LET un == IF r.blocked THEN unavailable[p] \cup {in_link_id}
                        ELSE unavailable[p]
                  ex == exited[p] \o r.exited
                  node_done == (un = InLinks(node))
                  last == node_done /\ node_cur[p] = Len(NodesToMove(p))
              IN /\ \E S \in {IF last THEN ExitAll(r.sim, p, ex, now[p]) ELSE r.sim} :
                        Store(p, S)
                 /\ unavailable' = [unavailable EXCEPT ![p] = IF node_done THEN {} ELSE un]
                 /\ exited' = [exited EXCEPT ![p] = IF last THEN <<>> ELSE ex]
                 /\ node_cur' = [node_cur EXCEPT ![p] =
                        IF last THEN 1 ELSE IF node_done THEN @ + 1 ELSE @]
                 /\ pc' = [pc EXCEPT ![p] = IF last THEN "links" ELSE "nodes"]
    /\ UNCHANGED <<scenario, config, readers, publisher,
                   now, in_messages, channel, expected, vehicles, result, finished,
                   sent, received>>

\* the loop at the end of move_links followed by wakeup of the same tick
Advance_same_tick(p, S, res) ==
    /\ \E S1 \in {Integrate(S, res, now[p])} : Store(p, S1)
    /\ now' = now
    /\ pc' = [pc EXCEPT ![p] = "wakeup"]
    /\ result' = [result EXCEPT ![p] = <<>>]

\* the end of Simulation::move_links once send_recv has returned res, and now += 1
Advance(p, S, res) ==
    /\ \E S1 \in {Integrate(S, res, now[p])} : Store(p, S1)
    /\ now' = [now EXCEPT ![p] = @ + 1]
    /\ pc' = [pc EXCEPT ![p] = IF now[p] + 1 <= end_time THEN "wakeup" ELSE "finish"]
    /\ result' = [result EXCEPT ![p] = <<>>]

\* Simulation::move_links up to the first send of send_receive_vehicles
MoveLinks(p) ==
    /\ p \in Parts
    /\ pc[p] = "links"
    /\ \E S1 \in {MoveLinksLocal(Sim(p), p, now[p])} :
       \E cached \in {pop_from_cache(in_messages[p], now[p])} :
       LET messages == prepare_send_recv_vehicles(S1.out_messages, p, now[p])
           S2 == [S1 EXCEPT !.out_messages = {}]
           exp == neighbors(p) \ {m.from_process : m \in Range(cached)}
       IN /\ in_messages' = [in_messages EXCEPT ![p] = @ \ Range(cached)]
          /\ expected' = [expected EXCEPT ![p] = exp]
          /\ vehicles' = [vehicles EXCEPT ![p] = messages]
          /\ IF messages = {} /\ exp = {}
             THEN Advance(p, S2, cached)
             ELSE /\ Store(p, S2)
                  /\ result' = [result EXCEPT ![p] = cached]
                  /\ pc' = [pc EXCEPT ![p] = IF messages = {} THEN "recv" ELSE "send"]
                  /\ now' = now
    /\ UNCHANGED <<scenario, config, readers, publisher,
                   channel, node_cur, unavailable, exited, finished, sent, received>>

\* one iteration of the send loop of send_receive_vehicles, in the arbitrary order
\* of the map; the last one goes on to the receive loop, which send_recv leaves at
\* once when it expects nothing
Send(p) ==
    /\ p \in Parts
    /\ pc[p] = "send"
    /\ \E msg \in vehicles[p] :
          /\ channel' = [channel EXCEPT ![msg.to_process] = Append(@, msg)]
          /\ sent' = [sent EXCEPT ![p][msg.to_process] = Append(@, msg.time)]
          /\ vehicles' = [vehicles EXCEPT ![p] = @ \ {msg}]
          /\ IF vehicles[p] = {msg} /\ expected[p] = {}
             THEN Advance(p, Sim(p), result[p])
             ELSE /\ pc' = [pc EXCEPT ![p] = IF vehicles[p] = {msg} THEN "recv" ELSE "send"]
                  /\ UNCHANGED <<now, activity_q, teleportation_q, garage, links,
                                 out_messages, events, agent_events, result>>
    /\ UNCHANGED <<scenario, config, readers, publisher,
                   in_messages, expected, node_cur, unavailable, exited, finished,
                   received>>

\* one iteration of the receive loop of send_receive_vehicles; the one that empties
\* the expected set returns from send_recv and finishes move_links
Receive(p) ==
    /\ p \in Parts
    /\ pc[p] = "recv"
    /\ channel[p] # <<>>
    /\ LET received_msg == Head(channel[p])
           exp == expect_after(expected[p], received_msg, now[p])
           res == IF handle_incoming_msg(received_msg, now[p])
                  THEN Append(result[p], received_msg)
                  ELSE result[p]
       IN /\ channel' = [channel EXCEPT ![p] = Tail(@)]
          /\ received' = [received EXCEPT ![p][received_msg.from_process] =
                              Append(@, received_msg.time)]
          /\ in_messages' = [in_messages EXCEPT ![p] =
                IF handle_incoming_msg(received_msg, now[p]) THEN @
                ELSE @ \cup {received_msg}]
          /\ expected' = [expected EXCEPT ![p] = exp]
          /\ IF exp = {}
             THEN Advance(p, Sim(p), res)
             ELSE /\ result' = [result EXCEPT ![p] = res]
                  /\ UNCHANGED <<now, pc, activity_q, teleportation_q, garage, links,
                                 out_messages, events, agent_events>>
    /\ UNCHANGED <<scenario, config, readers, publisher,
                   vehicles, node_cur, unavailable, exited, finished, sent>>

\* the end of Simulation::run: events.finish()
Finish(p) ==
    /\ p \in Parts
    /\ pc[p] = "finish"
    /\ finished' = [finished EXCEPT ![p] = @ + 1]
    /\ pc' = [pc EXCEPT ![p] = "done"]
    /\ UNCHANGED <<scenario, config, readers, publisher,
                   now, activity_q, teleportation_q, garage, links, out_messages,
                   in_messages, channel, expected, vehicles, result, node_cur,
                   unavailable, exited, events, agent_events, sent, received>>

Next ==
    \E p \in Ranks :
        \/ Wakeup(p)
        \/ TerminateTeleportation(p)
        \/ MoveNode(p)
        \/ MoveLinks(p)
        \/ Send(p)
        \/ Receive(p)
        \/ Finish(p)

Spec == Init /\ [][Next]_vars

\* the runs of the scenarios of single agents, queues and teleported legs
TestScenarios == Scenarios \ {"main", "link", "zero", "merge3", "S6alone"}

InitScenario == \E s \in TestScenarios : Start(s)

SpecScenario == InitScenario /\ [][Next]_vars

-----------------------------------------------------------------------------
(* Where agents and vehicles are *)

RECURSIVE Flatten(_)
Flatten(ss) == IF ss = <<>> THEN <<>> ELSE Head(ss) \o Flatten(Tail(ss))

\* the vehicles in the queue of a link
QueueVehicles(link) ==
    IF link.kind = "Out" THEN link.q
    ELSE [i \in 1 .. Len(link.q) |-> link.q[i].vehicle]

LinkVehicles(p) ==
    LET ids == LinkOrder[p]
    IN Flatten([i \in 1 .. Len(ids) |-> QueueVehicles(links[p][ids[i]])])

TeleportedVehicles(p) ==
    LET es == SetToSeq(teleportation_q[p])
    IN [i \in 1 .. Len(es) |-> es[i].vehicle]

\* the vehicles of a sequence of sync messages
MsgVehicles(msgs) == Flatten([i \in 1 .. Len(msgs) |-> msgs[i].vehicles])

\* messages of p under construction or not yet sent, and messages for p sent and
\* not yet integrated
PendingVehicles(p) ==
    MsgVehicles(SetToSeq(out_messages[p])) \o MsgVehicles(SetToSeq(vehicles[p]))

InTransitVehicles(p) ==
    MsgVehicles(channel[p]) \o MsgVehicles(SetToSeq(in_messages[p]))
        \o MsgVehicles(result[p])

\* every vehicle a partition holds; exited_vehicles is the local of move_nodes
HeldVehicles(p) ==
    LinkVehicles(p) \o TeleportedVehicles(p) \o PendingVehicles(p)
        \o InTransitVehicles(p) \o exited[p]

AllVehicles == Flatten([i \in 1 .. Cardinality(Parts) |-> HeldVehicles(i - 1)])

\* the agents in activity queues
ActiveAgents(p) ==
    LET es == SetToSeq(activity_q[p])
    IN [i \in 1 .. Len(es) |-> es[i].agent]

AllActive == Flatten([i \in 1 .. Cardinality(Parts) |-> ActiveAgents(i - 1)])

\* the number of agents and vehicles the simulation holds
Population == Len(AllActive) + Len(AllVehicles)

\* how often a vehicle id, or an agent, occurs
VehCount(v) == Cardinality({i \in 1 .. Len(AllVehicles) : AllVehicles[i].id = v})

ActiveCount(a) == Cardinality({i \in 1 .. Len(AllActive) : AllActive[i].id = a})

RidingCount(a) == Cardinality({i \in 1 .. Len(AllVehicles) : AllVehicles[i].agent.id = a})

-----------------------------------------------------------------------------
(* Conservation *)

\* C1: in a closed scenario the number of agents and vehicles, summed over all
\* partitions' activity queues, teleportation queues, link queues, SplitOut
\* buffers and sync messages not yet integrated, is the same in every state, so
\* in particular at the end of every tick (where exited_vehicles is empty).
C1_Conservation == Population = Cardinality(Agents)

\* a vehicle is on its way between two partitions while another partition has
\* already finished a later tick
C1_Witness ==
    \E p \in Parts :
        /\ MsgVehicles(channel[p]) # <<>>
        /\ \E q \in Parts : now[q] > now[p] /\ pc[q] = "wakeup"

\* C2: a vehicle occurs at most once in all link queues, SplitOut buffers,
\* teleportation queues and sync messages together, and the vehicle of an agent
\* that is not in an activity queue occurs exactly once.
C2_OnePlace ==
    /\ \A v \in VehIds : VehCount(v) <= 1
    /\ \A a \in Agents : ActiveCount(a) + RidingCount(a) = 1

\* a vehicle sits in the buffer of a SplitOut link, between the node transition
\* that pushed it and the move_links that takes it
C2_Witness ==
    \E p \in Parts : \E l \in PartLinks(p) :
        links[p][l].kind = "Out" /\ links[p][l].q # <<>> /\ pc[p] = "links"

-----------------------------------------------------------------------------
(* Synchronisation *)

\* every step a partition can take
Run(p) ==
    Wakeup(p) \/ TerminateTeleportation(p) \/ MoveNode(p) \/ MoveLinks(p)
        \/ Send(p) \/ Receive(p) \/ Finish(p)

\* every partition's thread keeps running while it can: a recv() on a channel
\* that holds a message returns, and a send never waits
FairSpec == Init /\ [][Next]_vars /\ \A p \in Ranks : WF_vars(Run(p))

Delivered(p, q) == Range(received[p][q])

\* C4: send_recv(now) stays in its receive loop exactly while some neighbour's
\* message for tick now has neither been received in this call nor been
\* buffered earlier; messages of other partitions change nothing; and it has
\* returned only when every neighbour's message for the tick had arrived.
C4_BlocksIff ==
    \A p \in Parts :
        /\ pc[p] = "recv" => expected[p] # {}
        /\ expected[p] # {} => pc[p] \in {"send", "recv"}
        /\ pc[p] \in {"send", "recv"} =>
               expected[p] = {q \in neighbors(p) : now[p] \notin Delivered(p, q)}
        /\ pc[p] \in {"wakeup", "teleport", "nodes", "links", "finish", "done"} =>
               \A q \in neighbors(p) :
                   \A t \in StartTime .. now[p] - 1 : t \in Delivered(p, q)

\* a partition has received a message stamped with its tick from a partition
\* that is no neighbour, and still waits for a neighbour
C4_Witness ==
    \E p \in Parts : \E q \in Parts \ (neighbors(p) \cup {p}) :
        /\ pc[p] = "recv"
        /\ now[p] \in Delivered(p, q)
        /\ expected[p] # {}

\* the ticks StartTime, StartTime + 1, ... in a sequence of n
Ticks(n) == [i \in 1 .. n |-> StartTime + i - 1]

\* C5: to each neighbour a partition has sent exactly one message per tick it
\* has come to send in, stamped with that tick, and from each neighbour it has
\* received exactly one message per tick, at least up to the last tick it has
\* completed.
C5_OnePerTick ==
    \A p \in Parts : \A q \in neighbors(p) :
        /\ sent[p][q] =
               Ticks(now[p] - StartTime +
                     (IF \/ pc[p] = "recv"
                         \/ pc[p] = "send" /\ ~ \E m \in vehicles[p] : m.to_process = q
                      THEN 1 ELSE 0))
        /\ received[p][q] = Ticks(Len(received[p][q]))
        /\ Len(received[p][q]) >= now[p] - StartTime

\* a partition with nothing to say has sent an empty message, which is on its
\* way to a neighbour that has already completed two ticks
C5_Witness ==
    \E p \in Parts : \E i \in 1 .. Len(channel[p]) :
        /\ channel[p][i].vehicles = <<>>
        /\ channel[p][i].storage_capacities = <<>>
        /\ channel[p][i].from_process \in neighbors(p)
        /\ now[p] >= StartTime + 2

-----------------------------------------------------------------------------
(* Storage *)

\* a partition is between two ticks
AtTickBoundary(p) == pc[p] \in {"wakeup", "finish", "done"}

\* C6 as stated: at every tick boundary the used storage of every link is at
\* most its maximum.
C6_StorageBound ==
    \A p \in Parts : \A l \in PartLinks(p) :
        AtTickBoundary(p) => links[p][l].used <= StorageMax(p, l)

\* C6 amended: a node transition pushes a vehicle onto a link only while that
\* link's used storage is below its maximum, so it leaves the link with less
\* than the maximum plus the vehicle's pce; departures and vehicles received
\* from other partitions are pushed without a check.
C6_TransitionBound ==
    [][\A p \in Parts : \A l \in PartLinks(p) :
          (pc[p] = "nodes" /\ links'[p][l].used > links[p][l].used) =>
              /\ links[p][l].used < StorageMax(p, l)
              /\ links'[p][l].used < StorageMax(p, l) + Scale]_vars

\* a node transition has pushed a vehicle onto a link that already held used
\* storage, filling it to its maximum
C6_Witness ==
    \E p \in Parts : \E l \in PartLinks(p) :
        /\ pc[p] = "links"
        /\ links[p][l].q # <<>>
        /\ links[p][l].used > Scale
        /\ links[p][l].used >= StorageMax(p, l)
        /\ QueueVehicles(links[p][l])[Len(links[p][l].q)].curr_route_elem > 0

-----------------------------------------------------------------------------
(* Events *)

IsDepartureOrArrival(e) == e.type \in {"departure", "arrival"}

\* the departures and arrivals of an agent, in the order they were published
Trips(a) == SelectSeq(agent_events[a], IsDepartureOrArrival)

\* C9: in the events of an agent, departures and arrivals alternate, starting
\* with a departure: every departure is followed by one arrival before the next
\* departure, and no arrival comes without its departure; the arrival is not
\* stamped earlier than the departure.
C9_DepartureArrival ==
    \A a \in Agents : \A i \in 1 .. Len(Trips(a)) :
        /\ Trips(a)[i].type = (IF i % 2 = 1 THEN "departure" ELSE "arrival")
        /\ i > 1 => Trips(a)[i].time >= Trips(a)[i - 1].time

\* one agent has finished two legs, and one agent's arrival was published by
\* another partition than its departure
C9_Witness ==
    /\ \E a \in Agents : Len(Trips(a)) = 4
    /\ \E a \in Agents :
           Len(Trips(a)) >= 2 /\ Trips(a)[1].part # Trips(a)[2].part

\* C10 as stated: when a vehicle has entered a link and its agent has arrived
\* since, exactly one LinkLeave for that link lies between the LinkEnter and
\* the arrival, also when the link is the last of the route.
C10_EnterThenLeave ==
    \A a \in Agents : \A i \in 1 .. Len(agent_events[a]) :
        \A j \in i + 1 .. Len(agent_events[a]) :
            (/\ agent_events[a][i].type = "linkenter"
             /\ agent_events[a][j].type = "arrival"
             /\ \A k \in i + 1 .. j - 1 : agent_events[a][k].type # "arrival")
            => Cardinality({k \in i + 1 .. j - 1 :
                   /\ agent_events[a][k].type = "linkleave"
                   /\ agent_events[a][k].link = agent_events[a][i].link}) = 1

\* the link a vehicle of agent a is on when its i-th event is published: that of
\* the last LinkEnter before it, or of the Departure when it has entered none yet
LinkBefore(a, i) ==
    LET on == {j \in 1 .. i - 1 : agent_events[a][j].type \in {"departure", "linkenter"}}
    IN agent_events[a][CHOOSE j \in on : \A k \in on : k <= j].link

\* C11 as stated: the LinkLeave that move_node publishes when it moves a vehicle
\* to its next link carries the id of the in-link the vehicle was on, for every
\* route.
C11_LeaveCarriesInLink ==
    \A a \in Agents : \A i \in 1 .. Len(agent_events[a]) :
        agent_events[a][i].type = "linkleave" =>
            agent_events[a][i].link = LinkBefore(a, i)

-----------------------------------------------------------------------------
(* A single link on its own: vehicles are pushed, offered and popped, and    *)
(* move_links updates it once per tick. events[0] logs pushes and pops.      *)

\* the ticks of a single-link run
BenchEnd == 3

\* the vehicles pushed in a single-link run
MaxPush == 3

BenchLog == events[0]

Pushed == {BenchLog[i].event.veh : i \in 1 .. Len(BenchLog)}

InitLink ==
    /\ scenario = "link"
    /\ config = Configs["link"]
    /\ now = [p \in Parts |-> StartTime]
    /\ pc = [p \in Parts |-> "link"]
    /\ \E l \in BenchLinks : links = [p \in Parts |-> [k \in {l} |-> NewLink(p, l)]]
    /\ activity_q = [p \in Parts |-> {}]
    /\ teleportation_q = [p \in Parts |-> {}]
    /\ garage = [p \in Parts |-> {}]
    /\ out_messages = [p \in Parts |-> {}]
    /\ in_messages = [p \in Parts |-> {}]
    /\ channel = [p \in Parts |-> <<>>]
    /\ expected = [p \in Parts |-> {}]
    /\ vehicles = [p \in Parts |-> {}]
    /\ result = [p \in Parts |-> <<>>]
    /\ node_cur = [p \in Parts |-> 1]
    /\ unavailable = [p \in Parts |-> {}]
    /\ exited = [p \in Parts |-> <<>>]
    /\ events = [p \in Parts |-> <<>>]
    /\ finished = [p \in Parts |-> 0]
    /\ agent_events = [a \in Agents |-> <<>>]
    /\ sent = [p \in Parts |-> [q \in Parts |-> <<>>]]
    /\ received = [p \in Parts |-> [q \in Parts |-> <<>>]]
    /\ readers = <<>>
    /\ publisher = NoEvents

LinkUnchanged ==
    UNCHANGED <<scenario, config, readers, publisher,
                pc, activity_q, teleportation_q, garage, out_messages, in_messages,
                channel, expected, vehicles, result, node_cur, unavailable, exited,
                finished, agent_events, sent, received>>

\* SimLink::push_veh of the next vehicle of a type, as send_veh_en_route calls it
LinkPush(l) ==
    /\ l \in DOMAIN links[0]
    /\ Cardinality(Pushed) < MaxPush
    /\ \E type \in {"car", "bike"} :
          LET fresh == {v \in BenchVehIds \ Pushed : VehTypeOf(v) = type}
          IN /\ fresh # {}
             /\ LET id == CHOOSE v \in fresh : \A w \in fresh : v <= w
                    veh == NewVehicle([id |-> 0, curr_plan_elem |-> 1], id)
                IN /\ links' = [links EXCEPT ![0][l] = push_veh(@, l, veh, now[0])]
                   /\ events' = [events EXCEPT ![0] =
                          Append(@, [time |-> now[0], event |-> Event("push", -1, id, l)])]
    /\ UNCHANGED now
    /\ LinkUnchanged

\* SimLink::offers_veh and SimLink::pop_veh, as move_node calls them
LinkPop(l) ==
    /\ l \in DOMAIN links[0]
    /\ q_front(links[0][l], now[0])
    /\ links' = [links EXCEPT ![0][l] = pop_front(@)]
    /\ events' = [events EXCEPT ![0] =
           Append(@, [time |-> now[0],
                      event |-> Event("pop", -1, Head(links[0][l].q).vehicle.id, l)])]
    /\ UNCHANGED now
    /\ LinkUnchanged

\* the arm of move_links for the link, and now += 1
LinkTick(l) ==
    /\ l \in DOMAIN links[0]
    /\ now[0] < BenchEnd
    /\ links' = [links EXCEPT ![0][l] = MoveLink(@, l, now[0])]
    /\ now' = [now EXCEPT ![0] = @ + 1]
    /\ UNCHANGED events
    /\ LinkUnchanged

NextLink ==
    \E l \in BenchLinks :
        \/ LinkPush(l)
        \/ LinkPop(l)
        \/ LinkTick(l)

SpecLink == InitLink /\ [][NextLink]_vars

-----------------------------------------------------------------------------
(* Flow and travel time of a single link *)

\* the pops from link l in the ticks t1 .. t2
Pops(l, t1, t2) ==
    {i \in 1 .. Len(BenchLog) :
        /\ BenchLog[i].event.type = "pop"
        /\ BenchLog[i].event.link = l
        /\ BenchLog[i].time \in t1 .. t2}

\* the smallest integer that is at least a / b
CeilDiv(a, b) == (a + b - 1) \div b

\* ceil(capacity_per_s * T) + 1 for link l
FlowBound(l, T) == CeilDiv(FlowCapS(l) * T, Scale) + 1

\* C7 as stated: in any interval of T consecutive ticks at most
\* ceil(capacity_per_s * T) + 1 vehicles are popped from a link.
C7_FlowBound ==
    \A l \in DOMAIN links[0] : \A t1 \in StartTime .. now[0] : \A t2 \in t1 .. now[0] :
        Cardinality(Pops(l, t1, t2)) <= FlowBound(l, t2 - t1 + 1)

\* C7 amended: the bound holds for every interval in which each popped vehicle
\* has a pce of at least 1; vehicles of smaller pce consume less flow capacity
\* each, and more of them than the bound can pass.
C7_FlowBoundFullPce ==
    \A l \in DOMAIN links[0] : \A t1 \in StartTime .. now[0] : \A t2 \in t1 .. now[0] :
        (\A i \in Pops(l, t1, t2) :
            VehicleType(VehTypeOf(BenchLog[i].event.veh)).pce >= Scale)
        => Cardinality(Pops(l, t1, t2)) <= FlowBound(l, t2 - t1 + 1)

\* two vehicles of pce 1 have been popped in one tick, which has used up the
\* flow capacity of the link
C7_Witness ==
    \E l \in DOMAIN links[0] :
        /\ Cardinality(Pops(l, now[0], now[0])) = 2
        /\ \A i \in Pops(l, now[0], now[0]) : VehTypeOf(BenchLog[i].event.veh) = "car"
        /\ ~ has_capacity(links[0][l])

\* the tick at which a vehicle in the queue was pushed
PushedAt(v) ==
    (CHOOSE e \in Range(BenchLog) : e.event.type = "push" /\ e.event.veh = v).time

\* max(1, floor(L / v)) with v = min(freespeed, max_v), for the head of a link
MinTravelTime(l, v) ==
    LET speed == Min(LinkTable[l].freespeed, VehicleType(VehTypeOf(v)).max_v)
        whole == LinkTable[l].length \div speed
    IN IF whole >= 1 THEN whole ELSE 1

\* C8: a link offers its head no earlier than max(1, floor(L / v)) ticks after
\* the tick at which the head was pushed, whatever its flow capacity holds and
\* however many vehicles are queued behind.
C8_NotBeforeExitTime ==
    \A l \in DOMAIN links[0] :
        q_front(links[0][l], now[0]) =>
            now[0] >= PushedAt(Head(links[0][l].q).vehicle.id)
                        + MinTravelTime(l, Head(links[0][l].q).vehicle.id)

\* a head that needs two ticks is offered exactly two ticks after its push, with
\* another vehicle queued behind it
C8_Witness ==
    \E l \in DOMAIN links[0] :
        /\ q_front(links[0][l], now[0])
        /\ Len(links[0][l].q) >= 2
        /\ MinTravelTime(l, Head(links[0][l].q).vehicle.id) = 2
        /\ now[0] = PushedAt(Head(links[0][l].q).vehicle.id) + 2

-----------------------------------------------------------------------------
(* The scenarios: what a run publishes *)

\* the events about an agent as (tick, type, link)
Stream(a) ==
    [i \in 1 .. Len(agent_events[a]) |->
        <<agent_events[a][i].time, agent_events[a][i].type, agent_events[a][i].link>>]

IsPrefix(s, t) == Len(s) <= Len(t) /\ \A i \in 1 .. Len(s) : s[i] = t[i]

\* every rank has left Simulation::run
AllDone == \A p \in Parts : pc[p] = "done"

\* a run publishes the events es about agent a, in this order, and no others
Publishes(a, es) == IsPrefix(Stream(a), es) /\ (AllDone => Stream(a) = es)

\* the events of scenario S1 as the claim lists them
S1EventsStated ==
    <<<<0, "actend", 0>>, <<0, "departure", 0>>, <<0, "entersveh", -1>>,
      <<0, "linkenter", 0>>, <<10, "linkleave", 0>>, <<10, "leavesveh", -1>>,
      <<10, "arrival", 0>>, <<10, "actstart", 0>>>>

\* and without the LinkEnter and the LinkLeave
S1Events ==
    <<<<0, "actend", 0>>, <<0, "departure", 0>>, <<0, "entersveh", -1>>,
      <<10, "leavesveh", -1>>, <<10, "arrival", 0>>, <<10, "actstart", 0>>>>

\* C12 as stated: in scenario S1 the published events are exactly ActEnd@0,
\* Departure@0, PersonEntersVehicle@0, LinkEnter(L)@0, LinkLeave(L)@10,
\* PersonLeavesVehicle@10, Arrival@10, ActStart@10, in this order.
C12_S1EventsStated == scenario = "S1" => Publishes(0, S1EventsStated)

\* C12 amended: in scenario S1 the published events are exactly ActEnd@0,
\* Departure@0, PersonEntersVehicle@0, PersonLeavesVehicle@10, Arrival@10,
\* ActStart@10, in this order: no LinkEnter is published for the link a vehicle
\* departs on and no LinkLeave for the link its route ends on.
C12_S1Events == scenario = "S1" => Publishes(0, S1Events)

\* the run of S1 has ended with all six events published
C12_Witness == scenario = "S1" /\ AllDone /\ Len(Stream(0)) = 6 /\ now[0] = end_time + 1

\* the events of a type about an agent
EventsOf(a, type) == {e \in Range(agent_events[a]) : e.type = type}

\* scenario S2 with the vehicle entering L2 (link 1) on partition 1 at tick
\* entered and the agent arriving on L3 (link 2) at tick arrived: LinkLeave(L1)
\* is published by partition 0 at tick 10, the buffer of SplitOut(L2) holds the
\* vehicle only until move_links of tick 10, partition 1 pushes it onto L2 at
\* tick entered, and the arrival is published by partition 1 at tick arrived
S2Run(entered, arrived) ==
    /\ \A e \in EventsOf(0, "linkleave") : e.link = 0 => e.time = 10 /\ e.part = 0
    /\ links[0][1].q # <<>> => now[0] = 10 /\ pc[0] \in {"nodes", "links"}
    /\ \A i \in 1 .. Len(links[1][1].q) :
           links[1][1].q[i].earliest_exit_time =
               entered + LinkDuration(1, links[1][1].q[i].vehicle)
    /\ \A e \in EventsOf(0, "arrival") : e.link = 2 /\ e.time = arrived /\ e.part = 1
    /\ AllDone => EventsOf(0, "arrival") # {}

\* C13 as stated: in scenario S2 LinkLeave(L1) is emitted on partition 0 at
\* t=10, the vehicle is drained from SplitOut(L2) at the end of tick 10,
\* partition 1 receives it at tick 11 and the agent arrives on L3 at t=31.
C13_ExtraTick == scenario = "S2" => S2Run(11, 31)

\* C13 amended: partition 1 receives the vehicle in its send_recv of tick 10
\* and enters it onto L2 with that tick, so the agent arrives on L3 at t=30:
\* crossing the partition boundary costs no tick.
C13_NoExtraTick == scenario = "S2" => S2Run(10, 30)

\* the run of S2 has ended and the arrival on L3 was published at tick 30
C13_Witness ==
    /\ scenario = "S2"
    /\ AllDone
    /\ \E e \in EventsOf(0, "arrival") : e.time = 30 /\ e.part = 1

\* tests::TestSubscriber::expected_events, the ticks counted from 32400: a walk
\* leg of 8 ticks on link 0, a car leg over the links 0, 1, 2 and a walk leg of
\* 16 ticks on link 2
expected_events ==
    <<<<0, "actend", 0>>, <<0, "departure", 0>>, <<8, "travelled", -1>>,
      <<8, "arrival", 0>>, <<8, "actstart", 0>>,
      <<9, "actend", 0>>, <<9, "departure", 0>>, <<9, "entersveh", -1>>,
      <<19, "linkleave", 0>>, <<19, "linkenter", 1>>,
      <<119, "linkleave", 1>>, <<119, "linkenter", 2>>,
      <<129, "leavesveh", -1>>, <<129, "arrival", 2>>, <<129, "actstart", 2>>,
      <<130, "actend", 2>>, <<130, "departure", 2>>, <<146, "travelled", -1>>,
      <<146, "arrival", 2>>, <<146, "actstart", 2>>>>

\* C14: for a single agent whose route crosses a partition boundary, the
\* sequence of (tick, event) pairs published by the 2-partition run, merged
\* over both partitions, equals the one published by the 1-partition run of the
\* same scenario: both are the expected events of the test.
C14_SameEvents == scenario \in {"test", "test2"} => Publishes(0, expected_events)

\* the 2-partition run has ended, and both partitions have published events
C14_Witness ==
    /\ scenario = "test2"
    /\ AllDone
    /\ Len(Stream(0)) = Len(expected_events)
    /\ \A p \in Parts : \E e \in Range(agent_events[0]) : e.part = p

\* the agents whose vehicle move_nodes returned as exited in tick t: Simulation::
\* move_nodes publishes PersonLeavesVehicle for each of them with that tick
ExitedIn(t) == {a \in Agents : \E e \in EventsOf(a, "leavesveh") : e.time = t}

\* C15: with NumQueued unit-pce vehicles queued on a link of 3600/h, all with
\* earliest exit time 10 and ending their route on the link (scenario S3),
\* move_nodes returns no vehicle before tick 10 and exactly one in each of the
\* ticks 10, 11, ..., 10 + NumQueued - 1.
C15_OneExitPerTick ==
    scenario = "S3" =>
        \A t \in 0 .. end_time :
            /\ t < 10 => ExitedIn(t) = {}
            /\ t \in 10 .. 10 + NumQueued - 1 =>
                   /\ Cardinality(ExitedIn(t)) <= 1
                   /\ now[0] > t => Cardinality(ExitedIn(t)) = 1

\* the run of S3 has ended and every queued vehicle has exited, one per tick
C15_Witness ==
    /\ scenario = "S3"
    /\ AllDone
    /\ \A k \in 0 .. NumQueued - 1 : Cardinality(ExitedIn(10 + k)) = 1
    /\ \A a \in Agents : EventsOf(a, "leavesveh") # {}

\* the number of LinkLeave events about an agent
LeaveCount(a) == Len(SelectSeq(agent_events[a], LAMBDA e : e.type = "linkleave"))

\* the head of link l of partition p wants to enter a link whose used storage
\* has reached its maximum
HeadBlocked(p, l) ==
    /\ links[p][l].kind # "Out"
    /\ links[p][l].q # <<>>
    /\ HasNext(Head(links[p][l].q).vehicle)
    /\ LET next == peek_next_route_element(Head(links[p][l].q).vehicle)
       IN links[p][next].used >= StorageMax(p, next)

\* a blocked head is still the head after the step, and no LinkLeave was published
BlockedStays ==
    \A p \in Parts : \A l \in PartLinks(p) :
        HeadBlocked(p, l) =>
            /\ links'[p][l].q # <<>>
            /\ Head(links'[p][l].q) = Head(links[p][l].q)
            /\ LeaveCount(Head(links[p][l].q).vehicle.agent.id)'
                   = LeaveCount(Head(links[p][l].q).vehicle.agent.id)

\* the ticks in which L2 (link 1) of scenario S4 popped one of the vehicles of
\* the agents 0 and 1, which end their route on it
L2Pops == {e.time : e \in EventsOf(0, "leavesveh") \cup EventsOf(1, "leavesveh")}

\* in scenario S4 agent 2 waits at the head of L1 (link 0) for L2: it leaves L1
\* and enters L2 in the tick after the first pop of L2, not in the tick of the pop
S4Waits ==
    /\ \A e \in EventsOf(2, "linkleave") \cup EventsOf(2, "linkenter") :
           \E t \in L2Pops : (\A u \in L2Pops : t <= u) /\ e.time = t + 1
    /\ \A t \in L2Pops :
           now[0] > t + 1 => EventsOf(2, "linkleave") # {} /\ EventsOf(2, "linkenter") # {}

\* C16: a vehicle at the head of L1 whose next link L2 has used storage >= max
\* storage stays on L1 and no LinkLeave(L1) is published; when L2 pops a
\* vehicle in tick t, the waiting vehicle leaves L1 and enters L2 in tick t+1
\* and not in tick t, with L1's end node processed before L2's (S4) or after
\* it (S4rev).
C16_WaitsForStorage ==
    /\ [][BlockedStays]_vars
    /\ [](scenario \in {"S4", "S4rev"} => S4Waits)

\* L2's end node is processed before L1's, L2 has popped a vehicle in tick 5 and
\* the waiting vehicle has entered L2 in tick 6
C16_Witness ==
    /\ scenario = "S4rev"
    /\ 5 \in L2Pops
    /\ \E e \in EventsOf(2, "linkenter") : e.time = 6 /\ e.link = 1

\* the leg agent a is on after its event i: one leg per Departure
LegAt(a, i) ==
    Plan(a)[2 * Cardinality({j \in 1 .. i : agent_events[a][j].type = "departure"})]

\* a leg of a teleported vehicle type that starts and ends in one partition
LocalTeleport(leg) ==
    /\ VehicleType(leg.mode).lod = "Teleported"
    /\ LinkPartition(leg.route[1]) = LinkPartition(leg.route[Len(leg.route)])

\* event i of agent a is the Departure of a local teleported leg of d ticks,
\* published in the tick t of the wake-up (that of the ActEnd before it); what
\* follows is Travelled, Arrival, ActStart with tick t + d from the same
\* partition, published once that partition is past tick t + d, and while the
\* ActStart is the agent's last event the agent is in the activity queue
TeleportedLocally(a, i) ==
    LET ev == agent_events[a]
        d == LegAt(a, i).trav_time
        after == <<"travelled", "arrival", "actstart">>
    IN /\ i > 1 /\ ev[i - 1].type = "actend"
       /\ ev[i - 1].time = ev[i].time /\ ev[i - 1].part = ev[i].part
       /\ \A k \in 1 .. 3 :
              i + k <= Len(ev) =>
                  /\ ev[i + k].type = after[k]
                  /\ ev[i + k].time = ev[i].time + d
                  /\ ev[i + k].part = ev[i].part
       /\ Len(ev) \notin {i + 1, i + 2}
       /\ now[ev[i].part] > ev[i].time + d => Len(ev) >= i + 3
       /\ Len(ev) = i + 3 =>
              \E e \in activity_q[ev[i].part] :
                  /\ e.agent.id = a
                  /\ Plan(a)[e.agent.curr_plan_elem - 1] = LegAt(a, i)

\* C17: for a leg of a teleported vehicle type with travel time d whose start
\* and end link belong to one partition, Departure is published at the wake-up
\* tick t, and Travelled, Arrival and ActStart are published in this order at
\* tick t + d by the same partition, after which the agent is in the activity
\* queue.
C17_LocalTeleport ==
    \A a \in Agents : \A i \in 1 .. Len(agent_events[a]) :
        agent_events[a][i].type = "departure" /\ LocalTeleport(LegAt(a, i))
            => TeleportedLocally(a, i)

\* the walk leg of 8 ticks of the test has ended at tick 8 in the partition it
\* started in, and the agent is in the activity queue
C17_Witness ==
    /\ scenario = "test2"
    /\ Len(agent_events[0]) = 5
    /\ agent_events[0][2].type = "departure" /\ agent_events[0][2].time = 0
    /\ agent_events[0][5].type = "actstart" /\ agent_events[0][5].time = 8
    /\ \E e \in activity_q[0] : e.agent.id = 0

\* the sync messages that exist: under construction, to be sent, in a channel,
\* cached, or returned by send_recv and not yet integrated
Messages ==
    UNION {out_messages[p] \cup vehicles[p] \cup Range(channel[p])
               \cup in_messages[p] \cup Range(result[p]) : p \in Parts}

\* scenario S6: a walk leg of 8 ticks departs at tick 0 on link 0 of partition 0
\* and ends on link 2 of another partition. The vehicle travels in a message of
\* tick 0 from partition 0 to that partition with its route cursor on link 2;
\* only that partition has it in its teleportation queue, taken in at its tick
\* 0 + k and due at 0 + k + 8, and publishes the Arrival with that tick; k is
\* in near when the partitions are neighbours and in far when they are not
S6Run(near, far) ==
    LET dest == LinkPartition(2)
        taken == IF dest \in neighbors(0) THEN near ELSE far
    IN /\ \A m \in Messages : \A i \in 1 .. Len(m.vehicles) :
              /\ m.time = 0 /\ m.from_process = 0 /\ m.to_process = dest
              /\ curr_link_id(m.vehicles[i]) = 2
       /\ \A p \in Parts : \A e \in teleportation_q[p] :
              p = dest /\ \E k \in taken : e.time = 0 + k + 8
       /\ \A e \in EventsOf(0, "arrival") :
              e.part = dest /\ e.link = 2 /\ \E k \in taken : e.time = 0 + k + 8
       /\ AllDone => EventsOf(0, "arrival") # {}

\* C18 as stated: in scenario S6 the vehicle is handed to the broker at tick t
\* with its route cursor on the end link, the destination partition, neighbour
\* or not, receives it in its next sync and puts it into its teleportation
\* queue, and publishes the Arrival at tick t + 1 + d.
C18_ArrivalNextTick == scenario \in {"S6", "S6far"} => S6Run({1}, {1})

\* C18 amended: a destination that is a neighbour takes the vehicle in in its
\* send_recv of the same tick t and publishes the Arrival at tick t + d; one
\* that is no neighbour takes it in at its tick t, t + 1 or t + 2 and
\* publishes the Arrival d ticks after that.
C18_ArrivalSameTick == scenario \in {"S6", "S6far"} => S6Run({0}, {0, 1, 2})

\* the neighbour has published the Arrival with tick 8
C18_Witness ==
    /\ scenario = "S6"
    /\ \E e \in EventsOf(0, "arrival") : e.part = 1 /\ e.time = 8

\* the partition that is no neighbour has published the Arrival with tick 10
S6farLate ==
    /\ scenario = "S6far"
    /\ \E e \in EventsOf(0, "arrival") : e.part = 2 /\ e.time = 10

\* the partition that holds a vehicle handed to add_veh once it is delivered
Owner(veh) == LinkPartition(curr_link_id(veh))

\* every message with a vehicle is addressed to the partition that owns the
\* vehicle's current link, which holds the link as a Local or SplitIn link; a
\* message is in the channel, the cache or the result of its addressee only;
\* and a vehicle in a message is nowhere else
AddressedToOwner ==
    /\ \A m \in Messages : \A i \in 1 .. Len(m.vehicles) :
           /\ m.to_process = Owner(m.vehicles[i])
           /\ LinkKind(m.to_process, curr_link_id(m.vehicles[i])) \in {"Local", "In"}
           /\ VehCount(m.vehicles[i].id) = 1
    /\ \A p \in Parts :
           \A m \in Range(channel[p]) \cup in_messages[p] \cup Range(result[p]) :
               m.to_process = p

\* a vehicle in a message of p is after a step still there or on its way to its
\* owner; a vehicle on its way to p is after a step still on its way or on a
\* link or in the teleportation queue of p
HandedOver ==
    \A p \in Parts :
        /\ \A veh \in Range(PendingVehicles(p)) :
               \/ veh \in Range(PendingVehicles(p))'
               \/ veh \in Range(InTransitVehicles(Owner(veh)))'
        /\ \A veh \in Range(InTransitVehicles(p)) :
               \/ veh \in Range(InTransitVehicles(p))'
               \/ veh \in Range(LinkVehicles(p))' \cup Range(TeleportedVehicles(p))'

\* C19: a vehicle passed to add_veh is delivered, in the result of send_recv, to
\* the partition that owns the vehicle's current link, once and to no other
\* partition; the receiving partition holds that link as a Local or SplitIn
\* link.
C19_DeliveredToOwner == []AddressedToOwner /\ [][HandedOver]_vars

\* send_recv of the owner has a message with a vehicle in its result
C19_Witness ==
    \E p \in Parts : \E m \in Range(result[p]) :
        /\ m.vehicles # <<>>
        /\ Owner(m.vehicles[1]) = p

\* the messages partition p has been sent and has not yet integrated
Incoming(p) == Range(channel[p]) \cup in_messages[p] \cup Range(result[p])

\* C20: a storage-cap report added with add_cap for a SplitIn link L is
\* delivered only to L's upstream partition, in the send_recv of the same
\* tick, and that partition holds L as a SplitOut link, so that
\* update_storage_caps never reaches its panic.
C20_CapToUpstream ==
    /\ \A m \in Messages : \A i \in 1 .. Len(m.storage_capacities) :
           LET L == m.storage_capacities[i].link_id
           IN /\ LinkKind(m.from_process, L) = "In"
              /\ m.to_process = NodePart(LinkTable[L].from)
              /\ LinkKind(m.to_process, L) = "Out"
    /\ \A p \in Parts : \A m \in Incoming(p) :
           m.storage_capacities # <<>> =>
               /\ m.to_process = p
               /\ ~ storage_caps_panic(links[p], m.storage_capacities)
               /\ m.time >= now[p]
               /\ m \in Range(result[p]) => m.time = now[p]

\* a split-out link whose buffer is empty and whose used storage is what the
\* downstream partition reported
C20_Witness ==
    \E p \in Parts : \E l \in PartLinks(p) :
        /\ links[p][l].kind = "Out"
        /\ links[p][l].q = <<>>
        /\ links[p][l].used > 0

\* the messages send_recv of partition p returns with this step: those that
\* leave the channel, the cache and the result for the loop at the end of
\* Simulation::move_links
Returned(p) == Incoming(p) \ Incoming(p)'

\* a message in the cache of p is not behind p, and after pop_from_cache it is
\* ahead of p: it is returned by the send_recv call for its own tick
Withheld ==
    \A p \in Parts : \A m \in in_messages[p] :
        /\ m.time >= now[p]
        /\ pc[p] \in {"send", "recv"} => m.time > now[p]

\* C21 as stated: every message returned by send_recv(now) carries tick == now;
\* a message with a later tick is withheld and returned by the call for its own
\* tick, and none with an earlier tick is returned, from a neighbour or not.
C21_OnlyThisTick ==
    /\ []Withheld
    /\ [](\A p \in Parts : \A m \in Range(result[p]) : m.time = now[p])
    /\ [][\A p \in Parts : \A m \in Returned(p) : m.time = now[p]]_vars

\* C21 amended: every message returned by send_recv(now) carries a tick <= now,
\* and one from a neighbour carries tick == now; a message with a later tick is
\* withheld and returned by the call for its own tick. A message from a
\* partition that is no neighbour may be returned with an earlier tick.
C21_NotLater ==
    /\ []Withheld
    /\ [](\A p \in Parts : \A m \in Range(result[p]) :
             /\ m.time <= now[p]
             /\ m.from_process \in neighbors(p) => m.time = now[p])
    /\ [][\A p \in Parts : \A m \in Returned(p) :
             /\ m.time <= now[p]
             /\ m.from_process \in neighbors(p) => m.time = now[p]]_vars

\* send_recv of a later tick has in its result the message of tick 0 of a
\* partition that is no neighbour, with the vehicle
C21_Witness ==
    \E p \in Parts : \E m \in Range(result[p]) :
        /\ m.from_process \notin neighbors(p)
        /\ m.vehicles # <<>>
        /\ m.time < now[p]

\* the step with which partition p ends a tick: it is in move_links, and now += 1
EndsTick(p) ==
    /\ pc[p] \in {"links", "send", "recv"}
    /\ now'[p] = now[p] + 1
    /\ pc'[p] \in {"wakeup", "finish"}

\* a partition takes the returned messages in only with the step that ends its
\* tick, after wakeup, terminate_teleportation, move_nodes and the link moves
IntegratesLast == \A p \in Parts : Returned(p) # {} => EndsTick(p)

\* when an agent's next event comes from another partition than the one before,
\* it carries a later tick: the partition that received the vehicle in tick t
\* has not moved it in tick t
MovedLater ==
    \A a \in Agents : \A i \in 1 .. Len(agent_events[a]) - 1 :
        agent_events[a][i].part # agent_events[a][i + 1].part
            => agent_events[a][i + 1].time > agent_events[a][i].time

\* C22: in every tick a partition integrates the vehicles and storage reports
\* received from other partitions only after its own wakeup, teleportation
\* arrivals, move_nodes and move_links of that tick; hence a vehicle received
\* in tick t is never moved across a node in tick t.
C22_IntegratesLast == [][IntegratesLast]_vars /\ []MovedLater

\* a partition has moved a vehicle across a node that it had received from
\* another partition
C22_Witness ==
    \E a \in Agents : \E i \in 1 .. Len(agent_events[a]) - 1 :
        /\ agent_events[a][i].part # agent_events[a][i + 1].part
        /\ agent_events[a][i].type = "linkenter"
        /\ agent_events[a][i + 1].type = "linkleave"

\* the event types that may follow an event of a network leg, and whether the
\* follower carries the same tick
AfterInLeg ==
    [actend    |-> [next |-> {"departure"}, same |-> TRUE],
     departure |-> [next |-> {"entersveh"}, same |-> TRUE],
     entersveh |-> [next |-> {"linkleave", "leavesveh"}, same |-> FALSE],
     linkleave |-> [next |-> {"linkenter"}, same |-> TRUE],
     linkenter |-> [next |-> {"linkleave", "leavesveh"}, same |-> FALSE],
     leavesveh |-> [next |-> {"arrival"}, same |-> TRUE],
     arrival   |-> [next |-> {"actstart"}, same |-> TRUE],
     actstart  |-> [next |-> {"actend"}, same |-> FALSE]]

\* event i of agent a belongs to a network leg, or is the ActEnd before or the
\* ActStart after one
InNetworkLeg(a, i) ==
    LET ev == agent_events[a]
        legs == Cardinality({j \in 1 .. i : ev[j].type = "departure"})
        k == IF ev[i].type = "actend" THEN legs + 1 ELSE legs
    IN /\ k >= 1
       /\ 2 * k <= Len(Plan(a))
       /\ VehicleType(Plan(a)[2 * k].mode).lod = "Network"

\* the events that are published together have all been published
LegWhole(a) ==
    LET ev == agent_events[a]
    IN ev # <<>> /\ InNetworkLeg(a, Len(ev)) =>
           ev[Len(ev)].type \in {"entersveh", "linkenter", "actstart"}

\* C23: for every network leg of an agent the events appear in the order
\* ActEnd, Departure, PersonEntersVehicle, then alternating LinkLeave/LinkEnter
\* pairs, then PersonLeavesVehicle, Arrival, ActStart; the first three carry
\* one tick, the last three carry one tick, and in each node transition
\* LinkLeave precedes LinkEnter with the same tick.
C23_LegOrder ==
    \A a \in Agents :
        /\ LegWhole(a)
        /\ \A i \in 1 .. Len(agent_events[a]) - 1 :
               InNetworkLeg(a, i) /\ agent_events[a][i].type # "actstart" =>
                   LET e == agent_events[a][i]
                       f == agent_events[a][i + 1]
                   IN /\ f.type \in AfterInLeg[e.type].next
                      /\ f.time >= e.time
                      /\ AfterInLeg[e.type].same => f.time = e.time

\* the agent of scenario S2 has ended its leg over three links in two partitions
C23_Witness ==
    /\ scenario = "S2"
    /\ Len(agent_events[0]) = 10
    /\ agent_events[0][4].type = "linkleave" /\ agent_events[0][5].type = "linkenter"
    /\ agent_events[0][10].type = "actstart"

\* what the draws of the in-links of the node that partition p is at lead to
NodeDraws(p) ==
    {MoveNodeDraw(Sim(p), p, l, now[p]) :
        l \in InLinks(NodesToMove(p)[node_cur[p]]) \ unavailable[p]}

\* C24: on a single partition two runs with identical inputs publish identical
\* event streams, also at a node with several in-links that compete for one
\* out-link: whichever in-link the node draws, the draw that moves a vehicle
\* publishes the same events and returns the same exited vehicle.
C24_SameStream ==
    \A p \in Parts :
        Cardinality(Parts) = 1 /\ pc[p] = "nodes" =>
            \A r1, r2 \in {r \in NodeDraws(p) : ~ r.blocked} :
                r1.sim.events = r2.sim.events /\ r1.exited = r2.exited

\* one run of scenario merge has ended with agent 0 on link 2 first
MergeFirst0 ==
    /\ scenario = "merge" /\ AllDone
    /\ \E e \in EventsOf(0, "linkenter") : \E f \in EventsOf(1, "linkenter") :
           e.time < f.time

\* another run has ended with agent 1 on link 2 first
MergeFirst1 ==
    /\ scenario = "merge" /\ AllDone
    /\ \E e \in EventsOf(0, "linkenter") : \E f \in EventsOf(1, "linkenter") :
           f.time < e.time

-----------------------------------------------------------------------------
(* Partitioning of drawn networks: SimNetworkPartition::from_network and   *)
(* neighbors on every network of three nodes and two links                 *)

\* the nodes and links of the drawn networks
NetNodes == 0 .. 2

NetLinks == 0 .. 1

\* a network of NetNodes on the partitions of Ranks, any link between any two nodes
Networks ==
    {[num_parts |-> Cardinality(Ranks), nodes |-> ns, end_time |-> 0,
      links |-> [l \in NetLinks |-> Link(ends[l][1], ends[l][2], 10, 10, 3600)],
      plans |-> <<>>] :
        ns \in [1 .. Cardinality(NetNodes) -> Ranks],
        ends \in [NetLinks -> NetNodes \X NetNodes]}

\* the partitions of one of the networks nets before from_network
InitBuild(s, nets) ==
    /\ scenario = s
    /\ config \in nets
    /\ now = [p \in Parts |-> StartTime]
    /\ pc = [p \in Parts |-> "new"]
    /\ links = [p \in Parts |-> <<>>]
    /\ expected = [p \in Parts |-> {}]
    /\ activity_q = [p \in Parts |-> {}]
    /\ teleportation_q = [p \in Parts |-> {}]
    /\ garage = [p \in Parts |-> {}]
    /\ out_messages = [p \in Parts |-> {}]
    /\ in_messages = [p \in Parts |-> {}]
    /\ channel = [p \in Parts |-> <<>>]
    /\ vehicles = [p \in Parts |-> {}]
    /\ result = [p \in Parts |-> <<>>]
    /\ node_cur = [p \in Parts |-> 1]
    /\ unavailable = [p \in Parts |-> {}]
    /\ exited = [p \in Parts |-> <<>>]
    /\ events = [p \in Parts |-> <<>>]
    /\ finished = [p \in Parts |-> 0]
    /\ agent_events = [a \in Agents |-> <<>>]
    /\ sent = [p \in Parts |-> [q \in Parts |-> <<>>]]
    /\ received = [p \in Parts |-> [q \in Parts |-> <<>>]]
    /\ readers = <<>>
    /\ publisher = NoEvents

InitNet == InitBuild("net", Networks)

NetUnchanged ==
    UNCHANGED <<scenario, config, readers, publisher,
                now, activity_q, teleportation_q, garage, out_messages,
                in_messages, channel, vehicles, result, node_cur, unavailable, exited,
                events, finished, agent_events, sent, received>>

\* SimNetworkPartition::from_network of partition p
FromNetwork(p) ==
    /\ p \in Parts
    /\ pc[p] = "new"
    /\ links' = [links EXCEPT ![p] = [l \in PartLinks(p) |-> NewLink(p, l)]]
    /\ pc' = [pc EXCEPT ![p] = "built"]
    /\ UNCHANGED expected
    /\ NetUnchanged

\* SimNetworkPartition::neighbors of partition p, kept in expected[p]
Neighbors(p) ==
    /\ p \in Parts
    /\ pc[p] = "built"
    /\ expected' = [expected EXCEPT ![p] = neighbors(p)]
    /\ pc' = [pc EXCEPT ![p] = "asked"]
    /\ UNCHANGED links
    /\ NetUnchanged

NextNet ==
    \E p \in Ranks :
        \/ FromNetwork(p)
        \/ Neighbors(p)

SpecNet == InitNet /\ [][NextNet]_vars

\* the partitions of the ends of a link
EndParts(l) == {NodePart(LinkTable[l].from), NodePart(LinkTable[l].to)}

\* C25: neighbors() of partition P is exactly the set of partitions Q # P with a
\* link that has one end in P and the other in Q, and Q is a neighbour of P
\* exactly if P is a neighbour of Q.
C25_SharedBoundary ==
    \A p \in Parts : pc[p] = "asked" =>
        /\ expected[p] = {q \in Parts \ {p} : \E l \in LinkIds : EndParts(l) = {p, q}}
        /\ \A q \in Parts : pc[q] = "asked" => (q \in expected[p] <=> p \in expected[q])

\* a partition whose two neighbours are both upstream of it: its boundary links
\* are all SplitIn links
C25_Witness ==
    \E p \in Parts :
        /\ pc[p] = "asked"
        /\ Cardinality(expected[p]) = 2
        /\ \A l \in DOMAIN links[p] : links[p][l].kind = "In"
        /\ \A q \in expected[p] : pc[q] = "asked" /\ expected[q] = {p}

-----------------------------------------------------------------------------
(* proto2xml: convert merges the event files events.{part}.binpb of the    *)
(* partitions into one stream                                              *)

\* the ticks of the frames of a file, the number of events of a frame, the
\* number of frames of a file
FrameTicks == 0 .. 2

FrameCounts == 0 .. 1

FileLens == 0 .. 2

\* the files a partition can have written: a tick and a number of events for
\* every frame, the ticks in order
Files ==
    UNION {{[i \in 1 .. n |-> <<ts[i], cs[i]>>] :
                ts \in {t \in [1 .. n -> FrameTicks] : \A i \in 1 .. n - 1 : t[i] <= t[i + 1]},
                cs \in [1 .. n -> FrameCounts]} : n \in FileLens}

\* the arguments of convert: num_parts and the files under events_path
Conversions(num_parts) ==
    {[num_parts |-> num_parts, files |-> f, nodes |-> <<>>, end_time |-> 0,
      links |-> <<>>, plans |-> <<>>] : f \in [0 .. num_parts - 1 -> Files]}

\* EventsReader::from_file: the frames (tick, events) of the file of a partition
EventsReader(part) ==
    LET file == Config.files[part]
    IN [i \in 1 .. Len(file) |->
           <<file[i][1],
             [k \in 1 .. file[i][2] |-> [part |-> part, frame |-> i, n |-> k]]>>]

\* the readers convert opens, one per partition
InitConvert ==
    /\ scenario = "convert"
    /\ \E num_parts \in 0 .. Cardinality(Ranks) : config \in Conversions(num_parts)
    /\ readers = [i \in 1 .. Config.num_parts |->
                     [reader |-> EventsReader(i - 1), curr_time_step |-> <<0, <<>>>>]]
    /\ publisher = NoEvents
    /\ now = [p \in Parts |-> StartTime]
    /\ pc = [p \in Parts |-> "done"]
    /\ links = [p \in Parts |-> <<>>]
    /\ expected = [p \in Parts |-> {}]
    /\ activity_q = [p \in Parts |-> {}]
    /\ teleportation_q = [p \in Parts |-> {}]
    /\ garage = [p \in Parts |-> {}]
    /\ out_messages = [p \in Parts |-> {}]
    /\ in_messages = [p \in Parts |-> {}]
    /\ channel = [p \in Parts |-> <<>>]
    /\ vehicles = [p \in Parts |-> {}]
    /\ result = [p \in Parts |-> <<>>]
    /\ node_cur = [p \in Parts |-> 1]
    /\ unavailable = [p \in Parts |-> {}]
    /\ exited = [p \in Parts |-> <<>>]
    /\ events = [p \in Parts |-> <<>>]
    /\ finished = [p \in Parts |-> 0]
    /\ agent_events = [a \in Agents |-> <<>>]
    /\ sent = [p \in Parts |-> [q \in Parts |-> <<>>]]
    /\ received = [p \in Parts |-> [q \in Parts |-> <<>>]]

ConvertUnchanged ==
    UNCHANGED <<scenario, config, now, pc, activity_q, teleportation_q, garage, links,
                out_messages, in_messages, channel, expected, vehicles, result, node_cur,
                unavailable, exited, events, finished, agent_events, sent, received>>

\* sort_by without comparing anything
sort_by_nothing(rs) ==
    rs

\* readers.sort_by(|a, b| a.curr_time_step.0.cmp(&b.curr_time_step.0)): a stable sort
RECURSIVE sort_by_time(_)
sort_by_time(rs) ==
    IF rs = <<>> THEN <<>>
    ELSE LET i == CHOOSE j \in 1 .. Len(rs) :
                      /\ \A k \in 1 .. Len(rs) :
                             rs[k].curr_time_step[1] >= rs[j].curr_time_step[1]
                      /\ \A k \in 1 .. j - 1 :
                             rs[k].curr_time_step[1] > rs[j].curr_time_step[1]
         IN <<rs[i]>> \o sort_by_time(SubSeq(rs, 1, i - 1) \o SubSeq(rs, i + 1, Len(rs)))

\* StatefulReader::load_next when the reader has a frame left
load_next(r) ==
    [reader |-> Tail(r.reader), curr_time_step |-> Head(r.reader)]

\* process_events: publish_event(time, event) for every event of the frame
process_events(time, evs) ==
    [i \in 1 .. Len(evs) |-> [time |-> time, event |-> evs[i]]]

\* one iteration of the loop of convert
ConvertStep ==
    /\ readers # <<>>
    /\ LET sorted == sort_by_time(readers)
           reader == sorted[1]
       IN /\ publisher' =
                 [publisher EXCEPT !.published =
                     @ \o process_events(reader.curr_time_step[1], reader.curr_time_step[2])]
          /\ readers' = IF reader.reader = <<>> THEN Tail(sorted)
                        ELSE <<load_next(reader)>> \o Tail(sorted)
    /\ ConvertUnchanged

\* the end of convert: publisher.finish()
ConvertFinish ==
    /\ readers = <<>>
    /\ publisher.finished = 0
    /\ publisher' = [publisher EXCEPT !.finished = 1]
    /\ UNCHANGED readers
    /\ ConvertUnchanged

NextConvert ==
    \/ ConvertStep
    \/ ConvertFinish

SpecConvert == InitConvert /\ [][NextConvert]_vars

\* every event of every file, with the tick of its frame
FileEvents ==
    UNION {UNION {Range(process_events(EventsReader(p)[i][1], EventsReader(p)[i][2])) :
                      i \in 1 .. Len(Config.files[p])} : p \in Parts}

Published == publisher.published

\* C26: given files whose frames are ordered by tick, convert publishes events of
\* the files only, none twice, with non-decreasing ticks, and when it finishes
\* it has published every event of every file; for zero to three partitions and
\* every interleaving of the ticks of the files.
C26_MergedInOrder ==
    /\ \A i \in 1 .. Len(Published) - 1 : Published[i].time <= Published[i + 1].time
    /\ \A i, j \in 1 .. Len(Published) : Published[i] = Published[j] => i = j
    /\ Range(Published) \subseteq FileEvents
    /\ publisher.finished = 1 => Range(Published) = FileEvents

\* convert has finished a merge of three files in which events of one partition
\* were published before and after an event of another, at three different ticks
C26_Witness ==
    /\ publisher.finished = 1
    /\ Config.num_parts = 3
    /\ \E i, j, k \in 1 .. Len(Published) :
          /\ Published[i].time < Published[j].time
          /\ Published[j].time < Published[k].time
          /\ Published[i].event.part = Published[k].event.part
          /\ Published[i].event.part # Published[j].event.part

-----------------------------------------------------------------------------
(* Order, storage and flow of a single link *)

\* the vehicles pushed onto (type "push") or popped from (type "pop") link l,
\* in the order of the calls
LogVehs(l, type) ==
    LET sel == SelectSeq(BenchLog, LAMBDA e : e.event.type = type /\ e.event.link = l)
    IN [i \in 1 .. Len(sel) |-> sel[i].event.veh]

\* the vehicles on a link, head first
QueueVehs(link) == [i \in 1 .. Len(link.q) |-> link.q[i].vehicle.id]

\* C27: vehicles leave a Local or SplitIn link in the order in which they were
\* pushed: the vehicles popped so far followed by the queue, head first, are the
\* vehicles in push order, so the head, which is the only vehicle the link
\* offers and pops, is the earliest-pushed vehicle still on the link, whatever
\* the exit times of the vehicles behind it.
C27_Fifo ==
    \A l \in DOMAIN links[0] :
        LogVehs(l, "push") = LogVehs(l, "pop") \o QueueVehs(links[0][l])

\* on the SplitIn link a bike was pushed, then a car whose exit time is one tick
\* earlier; the link offered nothing at the exit time of the car, and the bike
\* was popped before the car
C27_Witness ==
    /\ DOMAIN links[0] = {7}
    /\ links[0][7].kind = "In"
    /\ Len(BenchLog) = 4
    /\ BenchLog[1] = [time |-> 0, event |-> Event("push", -1, 8, 7)]
    /\ BenchLog[2] = [time |-> 0, event |-> Event("push", -1, 0, 7)]
    /\ BenchLog[3] = [time |-> 2, event |-> Event("pop", -1, 8, 7)]
    /\ BenchLog[4] = [time |-> 2, event |-> Event("pop", -1, 0, 7)]
    /\ LinkDuration(7, NewVehicle([id |-> 0, curr_plan_elem |-> 1], 0)) = 1
    /\ LinkDuration(7, NewVehicle([id |-> 0, curr_plan_elem |-> 1], 8)) = 2

\* the pce of a sequence of vehicle ids of a single-link run
RECURSIVE SumPce(_)
SumPce(vs) ==
    IF vs = <<>> THEN 0 ELSE VehicleType(VehTypeOf(Head(vs))).pce + SumPce(Tail(vs))

\* the pce popped from link l since the last move_links
PoppedPce(l) ==
    LET sel == SelectSeq(BenchLog, LAMBDA e : /\ e.event.type = "pop"
                                              /\ e.event.link = l
                                              /\ e.time = now[0])
    IN SumPce([i \in 1 .. Len(sel) |-> sel[i].event.veh])

\* a step of a single-link run is a pop
IsPop == Len(BenchLog') = Len(BenchLog) + 1 /\ BenchLog'[Len(BenchLog')].event.type = "pop"

\* C28: pop_veh leaves the used storage of a link unchanged; the arm of
\* move_links subtracts exactly the pce popped since the previous move_links and
\* sets the released storage to 0; between two move_links a link that is not
\* available does not become available.
C28_ReleasedAtMoveLinks ==
    [][\A l \in DOMAIN links[0] :
          /\ IsPop => links'[0][l].used = links[0][l].used
          /\ now' # now =>
                /\ links'[0][l].used = links[0][l].used - PoppedPce(l)
                /\ links'[0][l].released = 0
          /\ now' = now /\ ~ is_available(0, l, links[0][l])
                => ~ is_available(0, l, links'[0][l])]_vars

\* a full link after the pop of a car in this tick: it is still not available,
\* and the room of the car is free only after the next move_links
C28_Witness ==
    \E l \in DOMAIN links[0] :
        /\ ~ is_available(0, l, links[0][l])
        /\ PoppedPce(l) = Scale
        /\ links[0][l].released = Scale
        /\ is_available(0, l, apply_released(links[0][l]))

-----------------------------------------------------------------------------
(* SplitOut links are drained by every move_links *)

OutLinksOf(p) == {l \in DOMAIN links[p] : links[p][l].kind = "Out"}

\* the last event published about an agent
LastEvent(a) == agent_events[a][Len(agent_events[a])]

\* vehicle v has entered link l on partition p in the running tick of p
EnteredThisTick(p, l, v) ==
    /\ agent_events[v.agent.id] # <<>>
    /\ LastEvent(v.agent.id) = [time |-> now[p], type |-> "linkenter", link |-> l, part |-> p]

\* a SplitOut link buffers vehicles only between move_nodes and move_links of one
\* tick, and move_links leaves it empty with used storage 0
OutBuffered ==
    \A p \in Parts : \A l \in OutLinksOf(p) :
        /\ links[p][l].q # <<>> => pc[p] \in {"nodes", "links"}
        /\ \A v \in Range(links[p][l].q) : EnteredThisTick(p, l, v)
        /\ pc[p] \in {"send", "recv"} => links[p][l].q = <<>> /\ links[p][l].used = 0

\* the vehicles of q are in vs, in the order of q
InOrder(q, vs) ==
    /\ \A i \in 1 .. Len(q) : \E k \in 1 .. Len(vs) : vs[k] = q[i]
    /\ \A i, j \in 1 .. Len(q) : \A k, n \in 1 .. Len(vs) :
           i < j /\ vs[k] = q[i] /\ vs[n] = q[j] => k < n

\* move_links of partition p hands the buffer of every SplitOut link, in push
\* order, to the message of this tick for the partition of the link
Drained ==
    \A p \in Parts : pc[p] = "links" /\ pc'[p] # "links" =>
        \A l \in OutLinksOf(p) : links[p][l].q # <<>> =>
            \E m \in vehicles'[p] :
                /\ m.time = now[p]
                /\ m.to_process = LinkPartition(l)
                /\ InOrder(links[p][l].q, m.vehicles)

\* a network vehicle travels in a message of the tick in which it entered the
\* SplitOut link, sent by the partition that pushed it
SentInTickOfPush ==
    \A p \in Parts :
        \A m \in out_messages[p] \cup vehicles[p] \cup Range(channel[p])
                     \cup in_messages[p] \cup Range(result[p]) :
            \A v \in Range(m.vehicles) :
                lod(v) = "Network" =>
                    /\ agent_events[v.agent.id] # <<>>
                    /\ LastEvent(v.agent.id) =
                           [time |-> m.time, type |-> "linkenter",
                            link |-> curr_link_id(v), part |-> m.from_process]

\* C29: move_links empties every SplitOut link in every tick: take_veh hands over
\* all buffered vehicles in push order, leaves the buffer empty and the used
\* storage at 0, and a vehicle pushed onto a SplitOut link by move_nodes in tick
\* t is in the outbound vehicles of move_links(t) and of no other tick.
C29_DrainedEveryTick ==
    /\ []OutBuffered
    /\ []SentInTickOfPush
    /\ [][Drained]_vars

\* move_links has just drained a SplitOut link onto which move_nodes had pushed
\* two vehicles in this tick: the message of this tick for the next partition
\* carries both, the one of agent 1 that entered first before the one of agent 0,
\* and the link is empty again
C29_Witness ==
    \E p \in Parts : \E l \in OutLinksOf(p) : \E m \in vehicles[p] :
        /\ pc[p] = "send"
        /\ m.time = now[p]
        /\ m.to_process = LinkPartition(l)
        /\ Len(m.vehicles) = 2
        /\ \A v \in Range(m.vehicles) : EnteredThisTick(p, l, v)
        /\ m.vehicles[1].agent.id = 1
        /\ \E i, j \in 1 .. Len(events[p]) :
              /\ i < j
              /\ events[p][i].event = Event("linkenter", -1, m.vehicles[1].id, l)
              /\ events[p][j].event = Event("linkenter", -1, m.vehicles[2].id, l)
        /\ links[p][l].q = <<>>
        /\ links[p][l].used = 0

-----------------------------------------------------------------------------
(* The flow regulator of a single link *)

\* the ticks since the previous move_links
Elapsed == IF now[0] = StartTime THEN 0 ELSE 1

\* the vehicle a pop step takes
Popped == BenchLog'[Len(BenchLog')].event.veh

\* every step of a link with the accumulator capped at cap(l): move_links adds
\* capacity_per_s per elapsed tick up to the cap, a link offers a vehicle only
\* while the accumulator is above 0, and a pop subtracts the pce of the vehicle
FlowSteps(cap(_)) ==
    \A l \in DOMAIN links[0] :
        /\ now' # now =>
              links'[0][l].flow = Min(links[0][l].flow + FlowCapS(l) * Elapsed, cap(l))
        /\ IsPop =>
              /\ links[0][l].flow > 0
              /\ links'[0][l].flow = links[0][l].flow - VehicleType(VehTypeOf(Popped)).pce

CapAtOne(l) == Max(Scale, FlowCapS(l))

\* C30 as stated: the accumulator never exceeds max(1, capacity_per_s); each
\* update adds capacity_per_s per elapsed tick and caps the result at
\* max(1, capacity_per_s), a link offers a vehicle only while the accumulator is
\* above 0, and each pop subtracts the pce of the vehicle, possibly making the
\* accumulator negative.
C30_CappedAtOne ==
    /\ [](\A l \in DOMAIN links[0] : links[0][l].flow <= CapAtOne(l))
    /\ [](\A l \in DOMAIN links[0] : q_front(links[0][l], now[0]) => links[0][l].flow > 0)
    /\ [][FlowSteps(CapAtOne)]_vars

\* C30 amended: the accumulator never exceeds capacity_per_s; each update adds
\* capacity_per_s per elapsed tick and caps the result at capacity_per_s, also
\* when capacity_per_s is below 1; a link offers a vehicle only while the
\* accumulator is above 0, and each pop subtracts the pce of the vehicle,
\* possibly making the accumulator negative.
C30_CappedAtCapacity ==
    /\ [](\A l \in DOMAIN links[0] : links[0][l].flow <= FlowCapS(l))
    /\ [](\A l \in DOMAIN links[0] : q_front(links[0][l], now[0]) => links[0][l].flow > 0)
    /\ [][FlowSteps(FlowCapS)]_vars

\* the link of 0.5 pce/s two ticks after two cars were pushed: one was popped at
\* tick 1, which made the accumulator negative, and with the accumulator back at
\* 0 the other car is not offered although its exit time has passed
C30_Witness ==
    /\ DOMAIN links[0] = {8}
    /\ now[0] = 2
    /\ PoppedPce(8) = 0
    /\ LogVehs(8, "pop") = <<0>>
    /\ LogVehs(8, "push") = <<0, 2>>
    /\ links[0][8].flow = 0
    /\ Head(links[0][8].q).earliest_exit_time < now[0]
    /\ ~ q_front(links[0][8], now[0])

-----------------------------------------------------------------------------
(* The link tests of the flow regulator: two vehicles of one type are pushed *)
(* at tick 0, then update_flow_cap is called for later ticks and the link is *)
(* popped when it offers a vehicle                                           *)

\* the last tick of a run of flow_cap_accumulates
FlowEnd == 25

\* the links of these runs: 1.5 pce/s and 0.1 pce/s
FlowLinks == {5, 9}

\* the two vehicles of a type
FlowVehs(type) ==
    IF type = "van" THEN <<12, 13>> ELSE IF type = "bike" THEN <<8, 9>> ELSE <<0, 2>>

InitFlow ==
    /\ scenario = "link"
    /\ config = Configs["link"]
    /\ now = [p \in Parts |-> StartTime]
    /\ pc = [p \in Parts |-> "link"]
    /\ \E l \in FlowLinks : \E type \in {"car", "bike", "van"} :
          LET veh(i) == NewVehicle([id |-> 0, curr_plan_elem |-> 1], FlowVehs(type)[i])
              pushed(i) == [time |-> StartTime,
                            event |-> Event("push", -1, FlowVehs(type)[i], l)]
          IN /\ links = [p \in Parts |->
                    [k \in {l} |-> IF p = 0
                                   THEN push_veh(push_veh(NewLink(p, l), l, veh(1), StartTime),
                                                 l, veh(2), StartTime)
                                   ELSE NewLink(p, l)]]
             /\ events = [p \in Parts |-> IF p = 0 THEN <<pushed(1), pushed(2)>> ELSE <<>>]
    /\ activity_q = [p \in Parts |-> {}]
    /\ teleportation_q = [p \in Parts |-> {}]
    /\ garage = [p \in Parts |-> {}]
    /\ out_messages = [p \in Parts |-> {}]
    /\ in_messages = [p \in Parts |-> {}]
    /\ channel = [p \in Parts |-> <<>>]
    /\ expected = [p \in Parts |-> {}]
    /\ vehicles = [p \in Parts |-> {}]
    /\ result = [p \in Parts |-> <<>>]
    /\ node_cur = [p \in Parts |-> 1]
    /\ unavailable = [p \in Parts |-> {}]
    /\ exited = [p \in Parts |-> <<>>]
    /\ finished = [p \in Parts |-> 0]
    /\ agent_events = [a \in Agents |-> <<>>]
    /\ sent = [p \in Parts |-> [q \in Parts |-> <<>>]]
    /\ received = [p \in Parts |-> [q \in Parts |-> <<>>]]
    /\ readers = <<>>
    /\ publisher = NoEvents

\* SimLink::update_flow_cap(t) for a later tick t, as the tests call it
FlowUpdate(l) ==
    /\ l \in DOMAIN links[0]
    /\ \E t \in now[0] + 1 .. FlowEnd :
          /\ links' = [links EXCEPT ![0][l] = update_capacity(@, l, t)]
          /\ now' = [now EXCEPT ![0] = t]
    /\ UNCHANGED events
    /\ LinkUnchanged

NextFlow ==
    \E l \in FlowLinks :
        \/ FlowUpdate(l)
        \/ LinkPop(l)

SpecFlow == InitFlow /\ [][NextFlow]_vars

\* the pops from link l logged so far
PopsOf(l) ==
    {i \in 1 .. Len(BenchLog) :
        BenchLog[i].event.type = "pop" /\ BenchLog[i].event.link = l}

PopPce(i) == VehicleType(VehTypeOf(BenchLog[i].event.veh)).pce

\* C31 as stated: after a vehicle of pce p is popped at tick t from a link with
\* flow capacity c, the link offers no vehicle at any tick before t + p/c.
C31_NoOfferBefore ==
    \A l \in DOMAIN links[0] :
        q_front(links[0][l], now[0]) =>
            \A i \in PopsOf(l) : (now[0] - BenchLog[i].time) * FlowCapS(l) >= PopPce(i)

\* C31 amended: after a vehicle of pce p is popped at tick t from a link with
\* flow capacity c, the link offers no vehicle at a tick t + k with
\* (k + 1) * c < p; it may offer the next vehicle in tick t itself when p < c.
\* With c = 0.1 and p = 1.5 a pop at tick 10 is followed by no offer in ticks 11
\* to 23, and the next queued vehicle is offered at tick 25. (At tick 24 the
\* accumulator is back at zero, where the rounding of the f32 sum decides.)
C31_NoOfferInDebt ==
    \A l \in DOMAIN links[0] :
        /\ q_front(links[0][l], now[0]) =>
              \A i \in PopsOf(l) :
                  (now[0] - BenchLog[i].time + 1) * FlowCapS(l) >= PopPce(i)
        /\ l = 9 /\ LogVehs(l, "pop") = <<12>> /\ BenchLog[3].time = 10 =>
              /\ now[0] \in 11 .. 23 => ~ q_front(links[0][l], now[0])
              /\ now[0] = 25 => q_front(links[0][l], now[0])

\* the run of flow_cap_accumulates: on the link of 0.1 pce/s the first van was
\* popped at tick 10, and at tick 25 the link offers the second
C31_Witness ==
    /\ DOMAIN links[0] = {9}
    /\ LogVehs(9, "pop") = <<12>>
    /\ BenchLog[3].time = 10
    /\ now[0] = 25
    /\ links[0][9].flow = 1
    /\ q_front(links[0][9], now[0])

-----------------------------------------------------------------------------
(* The used storage of a split link on both sides of the boundary *)

\* the values the messages returned to p with this step report for link l
ReportedFor(p, l) ==
    UNION {{m.storage_capacities[i].value :
               i \in {j \in 1 .. Len(m.storage_capacities) :
                          m.storage_capacities[j].link_id = l}} : m \in Returned(p)}

\* partition q has finished the move_links of tick t and not yet the sync step
AfterMoveLinks(q, t) == now[q] = t /\ pc[q] \in {"send", "recv"}

\* C32: when partition p leaves the sync step of tick t, each of its SplitOut
\* links has the used storage the SplitIn link of the downstream partition had
\* after apply_released in move_links of tick t: the reported value when a
\* report came, and 0 when none came, which is when the downstream value was 0.
C32_UsedStorageSynced ==
    [][\A p \in Parts : now'[p] = now[p] + 1 =>
          \A l \in OutLinksOf(p) :
              /\ ReportedFor(p, l) \in {{}, {links'[p][l].used}}
              /\ ReportedFor(p, l) = {} => links'[p][l].used = 0
              /\ 0 \notin ReportedFor(p, l)
              /\ AfterMoveLinks(LinkPartition(l), now[p]) =>
                     links'[p][l].used = links[LinkPartition(l)][l].used]_vars

\* a SplitOut link that is empty and whose used storage, after the sync step, is
\* that of the vehicle on the SplitIn link of the downstream partition, which is
\* still in the sync step of the tick before
C32_Witness ==
    \E p \in Parts : \E l \in OutLinksOf(p) :
        /\ pc[p] = "wakeup"
        /\ links[p][l].q = <<>>
        /\ links[p][l].used > 0
        /\ AfterMoveLinks(LinkPartition(l), now[p] - 1)
        /\ links[LinkPartition(l)][l].used = links[p][l].used
        /\ Len(links[LinkPartition(l)][l].q) = 1

-----------------------------------------------------------------------------
(* The loop of move_node *)

\* runs of a node with an in-link of capacity 0, and of nodes with two in-links
\* before a link with room for one vehicle or more, on one partition or across two
NodeScenarios == {"zero", "merge", "merge2", "merge3"}

InitNode == \E s \in NodeScenarios : Start(s)

SpecNode == InitNode /\ [][Next]_vars

\* the node partition p is at
CurNode(p) == NodesToMove(p)[node_cur[p]]

\* C33: the loop of move_node ends for every node and every tick, also at a node
\* with an in-link of capacity 0: while it runs, the generator can draw an
\* in-link that is not yet unavailable, so that an iteration removes a vehicle
\* or marks a link.
C33_LoopEnds ==
    \A p \in Parts :
        pc[p] = "nodes" => Sampled(CurNode(p)) \ unavailable[p] # {}

-----------------------------------------------------------------------------
(* The kinds of link move_nodes touches *)

\* consecutive links of every route driven on the network share a node
RoutesConnected ==
    \A a \in Agents : \A i \in 1 .. Len(Plan(a)) :
        Plan(a)[i].kind = "leg" /\ VehicleType(Plan(a)[i].mode).lod = "Network" =>
            \A j \in 1 .. Len(Plan(a)[i].route) - 1 :
                LinkTable[Plan(a)[i].route[j]].to = LinkTable[Plan(a)[i].route[j + 1]].from

\* the links move_node draws from on partition p: the in-links of its nodes
NodeInLinks(p) == UNION {InLinks(NodesToMove(p)[i]) : i \in 1 .. Len(NodesToMove(p))}

\* C34: with routes whose consecutive links share a node, the links move_nodes
\* asks for a vehicle and pops are Local or SplitIn links of the partition, never
\* SplitOut links, and the next link of a vehicle queued on one of them is a
\* Local or SplitOut link of the partition, never a SplitIn link.
C34_NoSplitPanic ==
    RoutesConnected =>
        \A p \in Parts : \A l \in NodeInLinks(p) :
            /\ l \in DOMAIN links[p]
            /\ links[p][l].kind \in {"Local", "In"}
            /\ \A i \in 1 .. Len(links[p][l].q) :
                   LET veh == links[p][l].q[i].vehicle
                   IN HasNext(veh) =>
                          /\ peek_next_route_element(veh) \in DOMAIN links[p]
                          /\ links[p][peek_next_route_element(veh)].kind \in {"Local", "Out"}

\* move_nodes is at a node where a SplitIn link offers a vehicle that goes on to
\* a Local link
C34_Witness ==
    /\ RoutesConnected
    /\ \E p \in Parts :
           /\ pc[p] = "nodes"
           /\ \E l \in InLinks(CurNode(p)) \ unavailable[p] :
                  /\ links[p][l].kind = "In"
                  /\ q_front(links[p][l], now[p])
                  /\ HasNext(Head(links[p][l].q).vehicle)
                  /\ links[p][peek_next_route_element(Head(links[p][l].q).vehicle)].kind = "Local"

-----------------------------------------------------------------------------
(* How far apart partitions run *)

\* a link leads from a node of one of the two partitions to a node of the other
Adjacent(p, q) ==
    /\ p # q
    /\ \E l \in LinkIds : {NodePart(LinkTable[l].from), NodePart(LinkTable[l].to)} = {p, q}

\* C35: at every moment the ticks of two neighbouring partitions differ by at most
\* 1: while a partition executes tick t, each neighbour executes t - 1, t or t + 1.
C35_NeighboursInStep ==
    \A p, q \in Parts :
        Adjacent(p, q) => now[q] \in {now[p] - 1, now[p], now[p] + 1}

\* a partition is in tick t + 1, its neighbour waits in send_recv of tick t and
\* the neighbour of that one, no neighbour of the first, in send_recv of tick t - 1
C35_Witness ==
    \E p, q, r \in Parts :
        /\ Adjacent(p, q) /\ Adjacent(q, r) /\ ~ Adjacent(p, r) /\ p # r
        /\ pc[p] = "nodes" /\ now[p] = now[q] + 1
        /\ pc[q] = "recv" /\ now[q] = now[r] + 1
        /\ pc[r] = "recv"

-----------------------------------------------------------------------------
(* What a partition knows of the storage behind a boundary *)

\* partition p pushes a vehicle onto its SplitOut link l with this step
PushesOnto(p, l) ==
    /\ pc[p] = "nodes"
    /\ Len(links'[p][l].q) = Len(links[p][l].q) + 1

\* the pce of the vehicles buffered on SplitOut link l of partition p
BufferedPce(p, l) == SumPce([i \in 1 .. Len(links[p][l].q) |-> links[p][l].q[i].id])

\* C36 as stated: move_node pushes onto a SplitOut link in tick t only if the
\* SplitIn link of the downstream partition has used storage below its maximum
\* at the end of tick t - 1, with the vehicles it integrated in the sync step of
\* tick t - 1: that is its state when it starts tick t.
C36_CountsIntegrated ==
    [][\A p \in Parts : \A l \in OutLinksOf(p) :
          PushesOnto(p, l)
              /\ now[LinkPartition(l)] = now[p] /\ pc[LinkPartition(l)] = "wakeup" =>
                  links[LinkPartition(l)][l].used < StorageMax(LinkPartition(l), l)]_vars

\* C36 as the code has it: move_node pushes onto a SplitOut link in tick t only
\* if the used storage the downstream SplitIn link had in its move_links of tick
\* t - 1, before it integrated the vehicles of that tick's sync step, plus the pce
\* pushed onto the SplitOut link earlier in tick t, is below the maximum.
C36_CountsReported ==
    [][\A p \in Parts : \A l \in OutLinksOf(p) :
          PushesOnto(p, l) =>
              /\ links[p][l].used < StorageMax(p, l)
              /\ AfterMoveLinks(LinkPartition(l), now[p] - 1) =>
                     links[p][l].used = links[LinkPartition(l)][l].used + BufferedPce(p, l)]_vars

\* the upstream partition has pushed a vehicle onto the SplitOut link in a tick
\* that the downstream partition starts with the SplitIn link full
C36_Witness ==
    \E p \in Parts : \E l \in OutLinksOf(p) :
        /\ pc[p] = "nodes"
        /\ Len(links[p][l].q) = 1
        /\ now[LinkPartition(l)] = now[p] /\ pc[LinkPartition(l)] = "wakeup"
        /\ links[LinkPartition(l)][l].q # <<>>
        /\ links[LinkPartition(l)][l].used >= StorageMax(LinkPartition(l), l)

-----------------------------------------------------------------------------
(* Vehicles for a partition that is no neighbour *)

\* a teleported leg that ends on a neighbouring partition, on a partition that is
\* no neighbour of the sender, and on a partition that has no neighbours
RemoteScenarios == {"S6", "S6far", "S6alone"}

InitRemote == \E s \in RemoteScenarios : Start(s)

SpecRemote == InitRemote /\ [][Next]_vars

\* the messages with vehicles that were sent to partition p and that no send_recv
\* of p has returned
Unreturned(p) == {m \in Range(channel[p]) \cup in_messages[p] : m.vehicles # <<>>}

\* C37: a vehicle handed to add_veh at tick t is in a message that a send_recv of
\* its destination returns, if the destination runs ticks after t, also when the
\* destination is no neighbour of the sender or has no neighbours: when every
\* partition is through, a message with vehicles that was never returned is of
\* the last tick.
C37_Returned ==
    AllDone => \A p \in Parts : \A m \in Unreturned(p) : m.time >= end_time

-----------------------------------------------------------------------------
(* What move_node leaves behind *)

\* in-link l of partition p has a vehicle that could move now: it is not empty,
\* its head is due, it has flow credit, and the head's next link, if it has one,
\* has room
Movable(p, l) ==
    LET link == links[p][l]
    IN /\ link.q # <<>>
       /\ Head(link.q).earliest_exit_time <= now[p]
       /\ link.flow > 0
       /\ HasNext(Head(link.q).vehicle) =>
              LET next == peek_next_route_element(Head(link.q).vehicle)
              IN links[p][next].used < StorageMax(p, next)

\* the in-links move_nodes of this tick is through with: those marked unavailable
\* at the node it is at, those of the nodes move_node has returned for, and all
\* of them between move_nodes and move_links
Settled(p) ==
    IF pc[p] = "nodes"
    THEN unavailable[p]
             \cup UNION {InLinks(NodesToMove(p)[i]) : i \in 1 .. node_cur[p] - 1}
    ELSE IF pc[p] = "links" THEN NodeInLinks(p) ELSE {}

\* C38: when move_node returns in tick t no in-link of the node offers a vehicle
\* that could move (it is empty, or its head is due after t, or it has no flow
\* credit, or the head's next link is unavailable), and a link marked unavailable
\* does not become movable again in the same tick.
C38_NothingLeft ==
    \A p \in Parts : \A l \in Settled(p) : ~ Movable(p, l)

\* move_nodes has returned and left a vehicle that is due at the head of a link
\* with flow credit, because its next link is full
C38_Witness ==
    \E p \in Parts : \E l \in NodeInLinks(p) :
        /\ pc[p] = "links"
        /\ links[p][l].q # <<>>
        /\ Head(links[p][l].q).earliest_exit_time <= now[p]
        /\ links[p][l].flow > 0
        /\ HasNext(Head(links[p][l].q).vehicle)
        /\ ~ Movable(p, l)

-----------------------------------------------------------------------------
(* The two sides of a split link *)

\* the lengths in metres, capacities per hour and effective cell sizes in tenths
\* of a metre of the drawn networks
CellLengths == {5, 10, 15, 30, 100}

CellCapacities == {600, 3600, 7200}

CellSizes == {50, 75, 100}

\* node 0 on partition 0, node 1 on partition 1, link 0 from node 0 to node 1
CellNetworks ==
    {[num_parts |-> 2, nodes |-> <<0, 1>>, end_time |-> 0,
      links |-> 0 :> Link(0, 1, len, 10, cap), plans |-> <<>>,
      effective_cell_size |-> cell] :
        len \in CellLengths, cap \in CellCapacities, cell \in CellSizes}

InitCell == InitBuild("cell", CellNetworks)

SpecCell == InitCell /\ [][NextNet]_vars

\* C39: once both partitions are built, a link that crosses the boundary has the
\* same maximum storage as SplitOut link of the upstream partition and as SplitIn
\* link of the downstream partition, whatever effective cell size the network has.
C39_SameMax ==
    \A l \in LinkIds :
        LET up == NodePart(LinkTable[l].from)
            down == NodePart(LinkTable[l].to)
        IN /\ up # down
           /\ pc[up] # "new" /\ links[up][l].kind = "Out"
           /\ pc[down] # "new" /\ links[down][l].kind = "In"
           => StorageMax(up, l) = StorageMax(down, l)

-----------------------------------------------------------------------------
(* The end of an activity that is over as it starts *)

\* the i-th event about agent a
Ev(a, i) == agent_events[a][i]

\* C40: an agent that starts an activity in tick t, after an arrival from the
\* network or from a teleported leg, has its ActEnd and its next Departure in
\* tick t + 1 or later, also when the end time computed for the activity is t
\* or before, as with a maximum duration of 0.
C40_NotBeforeNextTick ==
    \A a \in Agents : \A i \in 1 .. Len(agent_events[a]) - 1 :
        Ev(a, i).type = "actstart" =>
            /\ Ev(a, i + 1).type = "actend"
            /\ Ev(a, i + 1).time >= Ev(a, i).time + 1
            /\ i + 2 <= Len(agent_events[a]) =>
                   /\ Ev(a, i + 2).type = "departure"
                   /\ Ev(a, i + 2).time >= Ev(a, i).time + 1

\* an agent has started an activity of maximum duration 0 after a teleported leg
\* and another after a leg on the network, and has left each in the next tick
C40_Witness ==
    \E a \in Agents : \E i, j \in 3 .. Len(agent_events[a]) - 2 :
        /\ Ev(a, i - 2).type = "travelled" /\ Ev(a, j - 2).type = "leavesveh"
        /\ \A k \in {i, j} :
               /\ Ev(a, k).type = "actstart"
               /\ \E n \in 1 .. Len(Plan(a)) :
                      /\ Plan(a)[n].kind = "act" /\ Plan(a)[n].max_dur = 0
                      /\ Plan(a)[n].link_id = Ev(a, k).link
               /\ Ev(a, k + 1).type = "actend" /\ Ev(a, k + 1).time = Ev(a, k).time + 1
               /\ Ev(a, k + 2).type = "departure" /\ Ev(a, k + 2).time = Ev(a, k).time + 1

====
